---- MODULE Spec2Model ----
(***************************************************************************)
(* Payroll computation and aggregation of the payroll_automation           *)
(* repository: the two record builders (MockLikeitAPI and the database     *)
(* population script), the repository's payroll table, the yearly          *)
(* population loop, and the monthly all-workers aggregation.                *)
(*                                                                         *)
(* Money is a Python Decimal in the source.  Here an amount is an integer  *)
(* number of 1/10000 EUR (EUR below), hours are hundredths of an hour, and *)
(* a percentage rate is in hundredths of a percent.  Every product the     *)
(* builders form is exact on the inputs enumerated below (ExactInputs).    *)
(* Amounts in SEK are in 1/100 SEK; a Decimal division keeps 28            *)
(* significant digits, which the model shortens to two decimals, rounding  *)
(* half-even as the Decimal context does.                                  *)
(***************************************************************************)
EXTENDS Integers, Sequences, FiniteSets, TLC

\* ------------------------------------------------------------------ bounds
\* number of months the population loop runs over (range(1, 7) in the script)
MaxMonth == 1
\* number of generate_payroll_data calls explored
MaxCalls == 2
\* calls of create_realistic_payroll_record on one accumulator dict
MaxUpdates == 2

\* ------------------------------------------------------------- fixed point
EUR == 100 * 100
Hour == 10 * 10
SEK == 10 * 10

\* x * (num / den), rounded down; exact whenever den divides x * num
DecMul(x, num, den) == (x \div den) * num + ((x % den) * num) \div den

\* whether x * (num / den) has no digits beyond the model's unit
DecMulExact(x, num, den) == ((x % den) * num) % den = 0

Abs(x) == IF x < 0 THEN -x ELSE x

\* Decimal division n / d rounded half-even to an integer number of units
DivRound(n, d) ==
    LET q == n \div d
        r == n % d
    IN  IF 2 * r < d THEN q
        ELSE IF 2 * r > d THEN q + 1
        ELSE IF q % 2 = 0 THEN q ELSE q + 1

RECURSIVE SumSeq(_)
SumSeq(s) == IF s = <<>> THEN 0 ELSE Head(s) + SumSeq(Tail(s))

\* -------------------------------------------------------------------- dates
Date(y, m, d) == [year |-> y, month |-> m, day |-> d]

IsLeap(y) == (y % 4 = 0 /\ y % 100 # 0) \/ y % 400 = 0

\* datetime.date's calendar
DaysInMonth(y, m) ==
    IF m = 2 THEN (IF IsLeap(y) THEN 29 ELSE 28)
    ELSE IF m \in {4, 6, 9, 11} THEN 30 ELSE 31

\* LastDayOfMonth taking every month for thirty days
LastDayOfMonth_ThirtyDays(y, m) == Date(y, m, 30)

\* date(year, month + 1, 1) - timedelta(days=1)
LastDayOfMonth(y, m) == Date(y, m, DaysInMonth(y, m))

\* (period_end - period_start).days + 1 for two dates of one month
WorkingDays(start, end) == end.day - start.day + 1

\* ------------------------------------------------------- description text
DescSwedishIncome ==
    "Vahennys palkasta - Ruotsin verot 30% verotettavasta tulosta SEK 20 727,88"
DescSwedishAllowance ==
    "Vahennys palkasta - Ruotsin verot 30% verotettavista kulukorvauksista SEK 4 217,78"
DescEnnakonpidatys == "Ennakonpidatys (Suomen verokortin poisto)"

\* the characters of the strings the model uses
Chars(s) ==
    CASE s = "Vahennys palkasta - Ruotsin verot 30% verotettavasta tulosta SEK 20 727,88" ->
            << "V", "a", "h", "e", "n", "n", "y", "s", " ", "p", "a", "l",
            "k", "a", "s", "t", "a", " ", "-", " ", "R", "u", "o", "t", "s",
            "i", "n", " ", "v", "e", "r", "o", "t", " ", "3", "0", "%", " ",
            "v", "e", "r", "o", "t", "e", "t", "t", "a", "v", "a", "s", "t",
            "a", " ", "t", "u", "l", "o", "s", "t", "a", " ", "S", "E", "K",
            " ", "2", "0", " ", "7", "2", "7", ",", "8", "8" >>
      [] s = "Vahennys palkasta - Ruotsin verot 30% verotettavista kulukorvauksista SEK 4 217,78" ->
            << "V", "a", "h", "e", "n", "n", "y", "s", " ", "p", "a", "l",
            "k", "a", "s", "t", "a", " ", "-", " ", "R", "u", "o", "t", "s",
            "i", "n", " ", "v", "e", "r", "o", "t", " ", "3", "0", "%", " ",
            "v", "e", "r", "o", "t", "e", "t", "t", "a", "v", "i", "s", "t",
            "a", " ", "k", "u", "l", "u", "k", "o", "r", "v", "a", "u", "k",
            "s", "i", "s", "t", "a", " ", "S", "E", "K", " ", "4", " ", "2",
            "1", "7", ",", "7", "8" >>
      [] s = "Ennakonpidatys (Suomen verokortin poisto)" ->
            << "E", "n", "n", "a", "k", "o", "n", "p", "i", "d", "a", "t",
            "y", "s", " ", "(", "S", "u", "o", "m", "e", "n", " ", "v", "e",
            "r", "o", "k", "o", "r", "t", "i", "n", " ", "p", "o", "i", "s",
            "t", "o", ")" >>
      [] s = "Tyottomyysvakuutusmaksu" ->
            << "T", "y", "o", "t", "t", "o", "m", "y", "y", "s", "v", "a",
            "k", "u", "u", "t", "u", "s", "m", "a", "k", "s", "u" >>
      [] s = "Pension insurance (TyEL)" ->
            << "P", "e", "n", "s", "i", "o", "n", " ", "i", "n", "s", "u",
            "r", "a", "n", "c", "e", " ", "(", "T", "y", "E", "L", ")" >>
      [] s = "Income Tax" ->
            << "I", "n", "c", "o", "m", "e", " ", "T", "a", "x" >>
      [] s = "Ay-jasenmaksu" ->
            << "A", "y", "-", "j", "a", "s", "e", "n", "m", "a", "k", "s",
            "u" >>
      [] s = "Ulosotto" -> << "U", "l", "o", "s", "o", "t", "t", "o" >>
      [] s = "Swedish" -> << "S", "w", "e", "d", "i", "s", "h" >>
      [] s = "Ruotsin" -> << "R", "u", "o", "t", "s", "i", "n" >>
      [] s = "tax" -> << "t", "a", "x" >>
      [] s = "vero" -> << "v", "e", "r", "o" >>
      [] s = "insurance" -> << "i", "n", "s", "u", "r", "a", "n", "c", "e" >>
      [] s = "vakuutus" -> << "v", "a", "k", "u", "u", "t", "u", "s" >>
      [] s = "12101" -> << "1", "2", "1", "0", "1" >>
      [] s = "12101_2" -> << "1", "2", "1", "0", "1", "_", "2" >>
      [] s = "12102" -> << "1", "2", "1", "0", "2" >>
      [] s = "12107" -> << "1", "2", "1", "0", "7" >>
      [] s = "MK002" -> << "M", "K", "0", "0", "2" >>
      [] s = "PVR003" -> << "P", "V", "R", "0", "0", "3" >>
      [] s = "VAH" -> << "V", "A", "H" >>
      [] s = "ENNPID" -> << "E", "N", "N", "P", "I", "D" >>
      [] s = "MK" -> << "M", "K" >>
      [] s = "PVR" -> << "P", "V", "R" >>
      [] s = "" -> << >>
      [] s = "1210" -> << "1", "2", "1", "0" >>
      [] s = "121010" -> << "1", "2", "1", "0", "1", "0" >>
      [] s = "12102_1" -> << "1", "2", "1", "0", "2", "_", "1" >>
      [] s = "12103" -> << "1", "2", "1", "0", "3" >>
      [] s = "12107X" -> << "1", "2", "1", "0", "7", "X" >>
      [] s = "X12101" -> << "X", "1", "2", "1", "0", "1" >>
      [] s = "112101" -> << "1", "1", "2", "1", "0", "1" >>
      [] s = "M" -> << "M" >>
      [] s = "MKX" -> << "M", "K", "X" >>
      [] s = "mk002" -> << "m", "k", "0", "0", "2" >>
      [] s = "PV" -> << "P", "V" >>
      [] s = "PVRX" -> << "P", "V", "R", "X" >>
      [] s = "KM002" -> << "K", "M", "0", "0", "2" >>
      [] s = "99999" -> << "9", "9", "9", "9", "9" >>
      [] s = "TYEL" -> << "T", "Y", "E", "L" >>
      [] s = "AY" -> << "A", "Y" >>
      [] s = "Aikatyo" ->
            << "A", "i", "k", "a", "t", "y", "o-umlaut" >>
      [] s = "Aikatyo YT" ->
            << "A", "i", "k", "a", "t", "y", "o-umlaut", " ", "Y", "T" >>
      [] s = "Ylityo 50%" ->
            << "Y", "l", "i", "t", "y", "o-umlaut", " ", "5", "0", "%" >>
      [] s = "Iltalisa" ->
            << "I", "l", "t", "a", "l", "i", "s", "a-umlaut" >>
      [] s = "Matkakorvaus verotettava - Elokuu" ->
            << "M", "a", "t", "k", "a", "k", "o", "r", "v", "a", "u", "s",
            " ", "v", "e", "r", "o", "t", "e", "t", "t", "a", "v", "a", " ",
            "em-dash", " ", "E", "l", "o", "k", "u", "u" >>
      [] s = "Ulkomaan paivaraha" ->
            << "U", "l", "k", "o", "m", "a", "a", "n", " ", "p", "a-umlaut",
            "i", "v", "a-umlaut", "r", "a", "h", "a" >>
      [] s = "Aikatyo (Regular work)" ->
            << "A", "i", "k", "a", "t", "y", "o-umlaut", " ", "(", "R", "e",
            "g", "u", "l", "a", "r", " ", "w", "o", "r", "k", ")" >>
      [] s = "Aikatyo YT (Overtime)" ->
            << "A", "i", "k", "a", "t", "y", "o-umlaut", " ", "Y", "T", " ",
            "(", "O", "v", "e", "r", "t", "i", "m", "e", ")" >>
      [] s = "Ylityo 50% (50% overtime bonus)" ->
            << "Y", "l", "i", "t", "y", "o-umlaut", " ", "5", "0", "%", " ",
            "(", "5", "0", "%", " ", "o", "v", "e", "r", "t", "i", "m", "e",
            " ", "b", "o", "n", "u", "s", ")" >>
      [] s = "Iltalisa (Evening supplement)" ->
            << "I", "l", "t", "a", "l", "i", "s", "a-umlaut", " ", "(", "E",
            "v", "e", "n", "i", "n", "g", " ", "s", "u", "p", "p", "l", "e",
            "m", "e", "n", "t", ")" >>
      [] s = "Ulkomaan paivaraha (Foreign per diem)" ->
            << "U", "l", "k", "o", "m", "a", "a", "n", " ", "p", "a-umlaut",
            "i", "v", "a-umlaut", "r", "a", "h", "a", " ", "(", "F", "o",
            "r", "e", "i", "g", "n", " ", "p", "e", "r", " ", "d", "i", "e",
            "m", ")" >>
      [] s = "Matkakorvaus verotettava (Taxable travel compensation)" ->
            << "M", "a", "t", "k", "a", "k", "o", "r", "v", "a", "u", "s",
            " ", "v", "e", "r", "o", "t", "e", "t", "t", "a", "v", "a", " ",
            "(", "T", "a", "x", "a", "b", "l", "e", " ", "t", "r", "a", "v",
            "e", "l", " ", "c", "o", "m", "p", "e", "n", "s", "a", "t", "i",
            "o", "n", ")" >>
      [] s = "overtime" ->
            << "o", "v", "e", "r", "t", "i", "m", "e" >>
      [] s = "ylity(A-tilde)(pilcrow)" ->
            << "y", "l", "i", "t", "y", "A-tilde", "pilcrow" >>

\* str.lower(), character by character (the letters with marks that occur
\* are lower case already)
LowerChar(c) ==
    CASE c = "A" -> "a" [] c = "B" -> "b" [] c = "C" -> "c" [] c = "D" -> "d"
      [] c = "E" -> "e" [] c = "F" -> "f" [] c = "G" -> "g" [] c = "H" -> "h"
      [] c = "I" -> "i" [] c = "J" -> "j" [] c = "K" -> "k" [] c = "L" -> "l"
      [] c = "M" -> "m" [] c = "N" -> "n" [] c = "O" -> "o" [] c = "P" -> "p"
      [] c = "Q" -> "q" [] c = "R" -> "r" [] c = "S" -> "s" [] c = "T" -> "t"
      [] c = "U" -> "u" [] c = "V" -> "v" [] c = "W" -> "w" [] c = "X" -> "x"
      [] c = "Y" -> "y" [] c = "Z" -> "z" [] OTHER -> c

Lower(chars) == [i \in 1..Len(chars) |-> LowerChar(chars[i])]

\* whether the characters sub occur in the characters chars, in a row
IsSubstring(sub, chars) ==
    \E i \in 0..(Len(chars) - Len(sub)) :
        \A j \in 1..Len(sub) : chars[i + j] = sub[j]

\* whether the characters chars begin with the characters prefix
IsPrefix(prefix, chars) ==
    /\ Len(prefix) <= Len(chars)
    /\ \A j \in 1..Len(prefix) : chars[j] = prefix[j]

\* 'word' in description
Contains(description, word) == IsSubstring(Chars(word), Chars(description))

SalaryItem(code, description, quantity, rate, total) ==
    [code |-> code, description |-> description, quantity |-> quantity,
     rate |-> rate, total |-> total]

Deduction(code, description, amount) ==
    [code |-> code, description |-> description, amount |-> amount]

\* sum(item.total for item in items)
SumTotals(items) == SumSeq([i \in 1..Len(items) |-> items[i].total])

\* sum(d.amount for d in deductions)
SumAmounts(deductions) == SumSeq([i \in 1..Len(deductions) |-> deductions[i].amount])

\* ------------------------------------------------------------ MockLikeitAPI
MOCK_EMPLOYEES == <<
    [employee_id |-> "01012020-123X", name |-> "Sam Sample",
     address |-> "Mechelininkatu 10, 00100 Helsinki",
     bank_details |-> "IBAN: FI12 3456 7890 1234 56, BIC: NDEAFIHH"],
    [employee_id |-> "15031985-456Y", name |-> "Maria Makinen",
     address |-> "Kalevankatu 5, 00100 Helsinki",
     bank_details |-> "IBAN: FI98 7654 3210 9876 54, BIC: OKOYFIHH"],
    [employee_id |-> "22071992-789Z", name |-> "Jukka Virtanen",
     address |-> "Mannerheimintie 20, 00100 Helsinki",
     bank_details |-> "IBAN: FI45 1122 3344 5566 77, BIC: HANDFIHH"] >>

base_hourly_rate == 17 * EUR
evening_supplement_rate == 141 * (EUR \div 100)
per_diem_rate == 68 * EUR
travel_compensation == 600 * EUR

\* rates of both builders, in hundredths of a percent
base_tax_rate == 1650
additional_tax_rate == 4400
income_limit == 39800 * EUR
PensionRate == 715
SwedishTaxRate == 3000
PerCent == 100 * 100
StandardDeduction == 21778 * (EUR \div 100)

MockSwedishTaxThreshold == 2072788 * (EUR \div 100)

\* The hours random.uniform / random.randint can draw in _generate_payroll_record:
\* regular 60..80 h, overtime 0..10 h, 50 % overtime 0..5 h, evening 5..15 h,
\* per diem 5..12 days.
MockWorkInputs == {
    [regular_hours |-> 6010, overtime_hours |-> 0, overtime_50_hours |-> 0,
     evening_hours |-> 1000, per_diem_days |-> 5],
    [regular_hours |-> 7010, overtime_hours |-> 500, overtime_50_hours |-> 200,
     evening_hours |-> 1000, per_diem_days |-> 8],
    [regular_hours |-> 7990, overtime_hours |-> 1000, overtime_50_hours |-> 400,
     evening_hours |-> 1000, per_diem_days |-> 12] }

\* salary_items of _generate_payroll_record; quantities in hundredths
MockSalaryItems(w) == <<
    SalaryItem("12101", "Aikatyo", w.regular_hours, base_hourly_rate,
               DecMul(base_hourly_rate, w.regular_hours, Hour)),
    SalaryItem("12101_2", "Aikatyo YT", w.overtime_hours, base_hourly_rate,
               DecMul(base_hourly_rate, w.overtime_hours, Hour)),
    SalaryItem("12102", "Ylityo 50%", w.overtime_50_hours,
               DecMul(base_hourly_rate, 1, 2),
               DecMul(DecMul(base_hourly_rate, w.overtime_50_hours, Hour), 1, 2)),
    SalaryItem("12107", "Iltalisa", w.evening_hours, evening_supplement_rate,
               DecMul(evening_supplement_rate, w.evening_hours, Hour)) >>

\* MockBenefits without the travel compensation item
MockBenefits_NoTravel(w) == <<
    SalaryItem("PVR003", "Ulkomaan paivaraha", w.per_diem_days * Hour,
               per_diem_rate, w.per_diem_days * per_diem_rate) >>

\* benefits of _generate_payroll_record
MockBenefits(w) == <<
    SalaryItem("MK002", "Matkakorvaus verotettava - Elokuu", Hour,
               travel_compensation, travel_compensation),
    SalaryItem("PVR003", "Ulkomaan paivaraha", w.per_diem_days * Hour,
               per_diem_rate, w.per_diem_days * per_diem_rate) >>

\* MockSwedishDeductions with the two deductions appended whatever the amount
MockSwedishDeductions_Unguarded(gross_salary) ==
    LET taxable_in_sweden == gross_salary - MockSwedishTaxThreshold
        swedish_tax_amount ==
            IF taxable_in_sweden > 0
            THEN -DecMul(taxable_in_sweden, SwedishTaxRate, PerCent) ELSE 0
        swedish_tax_deduction ==
            IF taxable_in_sweden > 0 THEN -StandardDeduction ELSE 0
    IN  << Deduction("VAH", DescSwedishIncome, swedish_tax_amount),
           Deduction("VAH", DescSwedishAllowance, swedish_tax_deduction) >>

\* Swedish tax of _generate_payroll_record: 30 % above the threshold plus the
\* standard deduction, both appended only when the first is negative
MockSwedishDeductions(gross_salary) ==
    LET taxable_in_sweden == gross_salary - MockSwedishTaxThreshold
        swedish_tax_amount ==
            IF taxable_in_sweden > 0
            THEN -DecMul(taxable_in_sweden, SwedishTaxRate, PerCent) ELSE 0
        swedish_tax_deduction ==
            IF taxable_in_sweden > 0 THEN -StandardDeduction ELSE 0
    IN  IF swedish_tax_amount < 0
        THEN << Deduction("VAH", DescSwedishIncome, swedish_tax_amount),
                Deduction("VAH", DescSwedishAllowance, swedish_tax_deduction) >>
        ELSE <<>>

\* Finnish withholding of _generate_payroll_record
MockFinnishTax(gross_salary, ytd_gross) ==
    IF ytd_gross <= income_limit
    THEN -DecMul(gross_salary, base_tax_rate, PerCent)
    ELSE -DecMul(gross_salary, additional_tax_rate, PerCent)

\* year-to-date figures of _generate_payroll_record: the period's amount
\* times the month number
MockYtd(amount, month) == amount * month

\* pension_insurance = -(gross_salary * Decimal('0.0715'))
PensionInsurance(gross_salary) == -DecMul(gross_salary, PensionRate, PerCent)

\* net_payment of _generate_payroll_record
MockNetPayment(gross_salary, deductions, pension_insurance, finnish_tax) ==
    LET total_deductions == SumAmounts(deductions) + pension_insurance
    IN  gross_salary + total_deductions

\* MockLikeitAPI._generate_payroll_record, the random draws being w
generate_payroll_record(employee, year, month, w) ==
    LET pay_period_start == Date(year, month, 1)
        pay_period_end == IF month = 12 THEN Date(year, month, 31)
                          ELSE LastDayOfMonth(year, month)
        payment_date == IF month = 12 THEN Date(year + 1, 1, 15)
                        ELSE Date(year, month, 25)
        salary_items == MockSalaryItems(w)
        gross_from_salary == SumTotals(salary_items)
        benefits == MockBenefits(w)
        tax_free_portion == w.per_diem_days * per_diem_rate
        gross_salary == gross_from_salary + travel_compensation
        ytd_gross == MockYtd(gross_salary, month)
        ytd_tax_free == MockYtd(tax_free_portion, month)
        finnish_tax == MockFinnishTax(gross_salary, ytd_gross)
        pension_insurance == PensionInsurance(gross_salary)
        deductions == MockSwedishDeductions(gross_salary)
                      \o << Deduction("ENNPID", DescEnnakonpidatys, 0) >>
    IN  [employee_id |-> employee.employee_id,
         name |-> employee.name,
         address |-> employee.address,
         pay_period_start |-> pay_period_start,
         pay_period_end |-> pay_period_end,
         payment_date |-> payment_date,
         bank_details |-> employee.bank_details,
         tax_info |-> [tax_card_type |-> "Perus",
                       base_tax_rate |-> base_tax_rate,
                       additional_tax_rate |-> additional_tax_rate,
                       income_limit_year |-> income_limit,
                       earnings_period_start |-> ytd_gross],
         salary_items |-> salary_items,
         deductions |-> deductions,
         benefits |-> benefits,
         tax_withholding |-> finnish_tax,
         pension_insurance |-> pension_insurance,
         tax_free_portion |-> tax_free_portion,
         net_payment |-> MockNetPayment(gross_salary, deductions,
                                        pension_insurance, finnish_tax),
         gross_salary |-> gross_salary,
         year_to_date_gross |-> ytd_gross,
         year_to_date_tax_free |-> ytd_tax_free]

\* --------------------------------------------- tests/reset_database.py
\* get_pay_periods_for_month: <<start, end, payment date>> of the two periods
get_pay_periods_for_month(year, month) ==
    LET start_1 == Date(year, month, 1)
        end_1 == Date(year, month, 14)
        pay_1 == Date(year, month, 20)
        start_2 == Date(year, month, 15)
        end_2 == IF month = 12 THEN Date(year, 12, 31)
                 ELSE LastDayOfMonth(year, month)
        pay_2 == IF month = 12 THEN Date(year + 1, 1, 5)
                 ELSE Date(year, month + 1, 5)
    IN  << <<start_1, end_1, pay_1>>, <<start_2, end_2, pay_2>> >>

PopulateEmployees == <<
    [employee_id |-> "01011990-123A", name |-> "Matti Virtanen",
     address |-> "Mechelininkatu 10, 00100 Helsinki",
     bank_details |-> "IBAN: FI21 1234 5600 0007 85, BIC: NDEAFIHH"],
    [employee_id |-> "15061985-456B", name |-> "Sanna Korhonen",
     address |-> "Kalevankatu 15, 00100 Helsinki",
     bank_details |-> "IBAN: FI98 7654 3210 9876 54, BIC: OKOYFIHH"],
    [employee_id |-> "22121992-789C", name |-> "Jukka Makinen",
     address |-> "Mannerheimintie 20, 00100 Helsinki",
     bank_details |-> "IBAN: FI45 1122 3344 5566 77, BIC: HANDFIHH"],
    [employee_id |-> "08031988-234D", name |-> "Liisa Saarinen",
     address |-> "Aleksanterinkatu 5, 00100 Helsinki",
     bank_details |-> "IBAN: FI67 8899 0011 2233 44, BIC: HELSFIHH"] >>

RealisticSwedishTaxThreshold == 833 * EUR

\* The draws of create_realistic_payroll_record: the share of 8 h days worked
\* (85..100 %), then overtime 0 or up to 15 h, 50 % overtime 0 or up to 8 h,
\* evening work 0 or 5..20 h, per diem 0 or 5..10 days.
RealisticWorkInputs == {
    [factor |-> 85, overtime_hours |-> 0, overtime_50_hours |-> 0,
     evening_hours |-> 0, per_diem_days |-> 0],
    [factor |-> 100, overtime_hours |-> 1000, overtime_50_hours |-> 400,
     evening_hours |-> 2000, per_diem_days |-> 5] }

RealisticSalaryItems(working_days, w) ==
    LET regular_hours == working_days * 8 * w.factor
    IN  << SalaryItem("12101", "Aikatyo (Regular work)", regular_hours,
                      base_hourly_rate,
                      DecMul(base_hourly_rate, regular_hours, Hour)) >>
        \o (IF w.overtime_hours > 0
            THEN << SalaryItem("12101_2", "Aikatyo YT (Overtime)",
                               w.overtime_hours, base_hourly_rate,
                               DecMul(base_hourly_rate, w.overtime_hours, Hour)) >>
            ELSE <<>>)
        \o (IF w.overtime_50_hours > 0
            THEN << SalaryItem("12102", "Ylityo 50% (50% overtime bonus)",
                               w.overtime_50_hours, DecMul(base_hourly_rate, 1, 2),
                               DecMul(DecMul(base_hourly_rate,
                                             w.overtime_50_hours, Hour), 1, 2)) >>
            ELSE <<>>)
        \o (IF w.evening_hours > 0
            THEN << SalaryItem("12107", "Iltalisa (Evening supplement)",
                               w.evening_hours, evening_supplement_rate,
                               DecMul(evening_supplement_rate,
                                      w.evening_hours, Hour)) >>
            ELSE <<>>)

\* travel_compensation = 600.00 if per_diem_days > 0 else 0
RealisticTravelCompensation(w) ==
    IF w.per_diem_days > 0 THEN travel_compensation ELSE 0

RealisticBenefits(w) ==
    (IF w.per_diem_days > 0
     THEN << SalaryItem("PVR003", "Ulkomaan paivaraha (Foreign per diem)",
                        w.per_diem_days * Hour, per_diem_rate,
                        w.per_diem_days * per_diem_rate) >>
     ELSE <<>>)
    \o (IF RealisticTravelCompensation(w) > 0
        THEN << SalaryItem("MK002",
                           "Matkakorvaus verotettava (Taxable travel compensation)",
                           Hour, RealisticTravelCompensation(w),
                           RealisticTravelCompensation(w)) >>
        ELSE <<>>)

\* RealisticSwedishDeductions taxing the whole gross above the threshold test
RealisticSwedishDeductions_WholeGross(gross_salary) ==
    LET taxable_in_sweden == gross_salary - RealisticSwedishTaxThreshold
    IN  IF taxable_in_sweden > 0
        THEN << Deduction("VAH", DescSwedishIncome,
                          -DecMul(gross_salary, SwedishTaxRate, PerCent)),
                Deduction("VAH", DescSwedishAllowance, -StandardDeduction) >>
        ELSE <<>>

\* Swedish tax of create_realistic_payroll_record
RealisticSwedishDeductions(gross_salary) ==
    LET taxable_in_sweden == gross_salary - RealisticSwedishTaxThreshold
    IN  IF taxable_in_sweden > 0
        THEN << Deduction("VAH", DescSwedishIncome,
                          -DecMul(taxable_in_sweden, SwedishTaxRate, PerCent)),
                Deduction("VAH", DescSwedishAllowance, -StandardDeduction) >>
        ELSE <<>>

\* RealisticFinnishTax without the reduction to 0.3
RealisticFinnishTax_Unreduced(gross_salary) ==
    -DecMul(gross_salary, base_tax_rate, PerCent)

\* finnish_tax = -(gross_salary * base_tax_rate / 100) * 0.3
RealisticFinnishTax(gross_salary) ==
    -DecMul(DecMul(gross_salary, base_tax_rate, PerCent), 3, 10)

\* net_payment of create_realistic_payroll_record
RealisticNetPayment(gross_salary, deductions, pension_insurance, finnish_tax) ==
    LET total_deductions == SumAmounts(deductions) + pension_insurance + finnish_tax
    IN  gross_salary + total_deductions

\* ytd_accumulator['gross'] += gross_salary; ['tax_free'] += tax_free_portion
UpdateYtd(ytd_accumulator, gross_salary, tax_free_portion) ==
    [gross |-> ytd_accumulator.gross + gross_salary,
     tax_free |-> ytd_accumulator.tax_free + tax_free_portion]

\* create_realistic_payroll_record, the random draws being w; the result is
\* the record and the accumulator dict as the call leaves it
create_realistic_payroll_record(employee, period_start, period_end, payment_date, ytd_accumulator, w) ==
    LET working_days == WorkingDays(period_start, period_end)
        salary_items == RealisticSalaryItems(working_days, w)
        gross_from_work == SumTotals(salary_items)
        benefits == RealisticBenefits(w)
        tax_free_portion == IF w.per_diem_days > 0
                            THEN w.per_diem_days * per_diem_rate ELSE 0
        gross_salary == gross_from_work + RealisticTravelCompensation(w)
        deductions == RealisticSwedishDeductions(gross_salary)
        finnish_tax == RealisticFinnishTax(gross_salary)
        pension_insurance == PensionInsurance(gross_salary)
        ytd == UpdateYtd(ytd_accumulator, gross_salary, tax_free_portion)
    IN  [ytd_accumulator |-> ytd,
         record |->
           [employee_id |-> employee.employee_id,
            name |-> employee.name,
            address |-> employee.address,
            pay_period_start |-> period_start,
            pay_period_end |-> period_end,
            payment_date |-> payment_date,
            bank_details |-> employee.bank_details,
            tax_info |-> [tax_card_type |-> "Perus",
                          base_tax_rate |-> base_tax_rate,
                          additional_tax_rate |-> additional_tax_rate,
                          income_limit_year |-> income_limit,
                          earnings_period_start |-> ytd.gross],
            salary_items |-> salary_items,
            deductions |-> deductions,
            benefits |-> benefits,
            tax_withholding |-> finnish_tax,
            pension_insurance |-> pension_insurance,
            tax_free_portion |-> tax_free_portion,
            net_payment |-> RealisticNetPayment(gross_salary, deductions,
                                                pension_insurance, finnish_tax),
            gross_salary |-> gross_salary,
            year_to_date_gross |-> ytd.gross,
            year_to_date_tax_free |-> ytd.tax_free]]

\* ------------------------------------------------------------------- state
VARIABLES
    built,             \* the records the builders returned to the last operation,
                       \* as returned, with their arguments
    payroll_records,   \* table payroll_records, in insertion (id) order
    employees,         \* table employees: the ids saved
    tax_form_submissions,  \* table tax_form_submissions, in id order
    annual_summaries,  \* table annual_summaries, in id order
    all_records,       \* the list the last generate_payroll_data returned
    calls,             \* generate_payroll_data calls made
    pc,                \* position of reset_and_populate_database
    loop_month,        \* its month loop variable
    period_idx,        \* its period_idx loop variable
    emp_idx,           \* position of its employee loop
    ytd_accumulators,  \* its dict employee_id -> (gross, tax_free)
    payroll_input,     \* the list handed to MonthlyAllWorkersGenerator.generate
    sheet,             \* the worksheet it wrote
    annual,            \* the all-workers annual summary last written
    classify_input,    \* what the repository's classifiers are called with
    classified,        \* what they returned
    files,             \* output/personal_tax: path -> the workbook saved there
    generated          \* the last generate_personal_annual_summary call

vars == << built, payroll_records, employees, tax_form_submissions,
           annual_summaries, all_records, calls, pc,
           loop_month, period_idx, emp_idx, ytd_accumulators,
           payroll_input, sheet, annual, classify_input, classified,
           files, generated >>

dbVars == << payroll_records, employees, tax_form_submissions, annual_summaries >>
appVars == << all_records, calls >>
populateVars == << pc, loop_month, period_idx, emp_idx, ytd_accumulators >>
monthlyVars == << payroll_input, sheet >>
annualVars == << annual >>
classifyVars == << classify_input, classified >>
fileVars == << files, generated >>

\* no generate_personal_annual_summary call made yet
NotGenerated == [error |-> "", returned |-> FALSE, path |-> <<>>, workbook |-> <<>>]

ZeroYtd == [gross |-> 0, tax_free |-> 0]

\* ------------------------------------------------------- PayrollRepository
\* code.startswith(prefix)
StartsWith(code, prefix) == IsPrefix(Chars(prefix), Chars(code))

\* word in description.lower()
ContainsLower(description, word) ==
    IsSubstring(Chars(word), Lower(Chars(description)))

\* classify_salary_item comparing whole codes
classify_salary_item_WholeCode(code) ==
    IF code = "12101" THEN "salary"
    ELSE IF code = "12102" THEN "overtime"
    ELSE IF code = "12107" THEN "supplement"
    ELSE IF code = "MK" \/ code = "PVR" THEN "benefit"
    ELSE "other"

\* PayrollRepository._classify_salary_item
classify_salary_item(code) ==
    IF StartsWith(code, "12101") THEN "salary"
    ELSE IF StartsWith(code, "12102") THEN "overtime"
    ELSE IF StartsWith(code, "12107") THEN "supplement"
    ELSE IF StartsWith(code, "MK") \/ StartsWith(code, "PVR") THEN "benefit"
    ELSE "other"

\* PayrollRepository._classify_deduction
classify_deduction(code, description) ==
    IF ContainsLower(description, "tax") \/ ContainsLower(description, "vero")
    THEN "tax"
    ELSE IF ContainsLower(description, "insurance")
            \/ ContainsLower(description, "vakuutus")
    THEN "insurance"
    ELSE "other"

\* StoredSwedishTax adding the amounts with their sign
StoredSwedishTax_Signed(payroll_record) ==
    LET d == payroll_record.deductions
    IN  SumSeq([i \in 1..Len(d) |->
                  IF Contains(d[i].description, "Swedish")
                     \/ Contains(d[i].description, "Ruotsin")
                  THEN d[i].amount ELSE 0])

\* swedish_tax of save_payroll_record
StoredSwedishTax(payroll_record) ==
    LET d == payroll_record.deductions
    IN  SumSeq([i \in 1..Len(d) |->
                  IF Contains(d[i].description, "Swedish")
                     \/ Contains(d[i].description, "Ruotsin")
                  THEN Abs(d[i].amount) ELSE 0])

\* a Numeric(10, 2) column: the amount as stored, rounded to cents
Numeric2(amount) == DivRound(amount, EUR \div 100) * (EUR \div 100)

\* the rows save_payroll_record adds for a record: one PayrollRecordDB with
\* its SalaryItemDB and DeductionDB children
PayrollRecordDB(id, payroll_record) ==
    LET items == payroll_record.salary_items
        bens == payroll_record.benefits
        deds == payroll_record.deductions
    IN  [id |-> id,
         employee_id |-> payroll_record.employee_id,
         year |-> payroll_record.pay_period_start.year,
         month |-> payroll_record.pay_period_start.month,
         pay_period_start |-> payroll_record.pay_period_start,
         pay_period_end |-> payroll_record.pay_period_end,
         payment_date |-> payroll_record.payment_date,
         gross_salary |-> Numeric2(payroll_record.gross_salary),
         net_payment |-> Numeric2(payroll_record.net_payment),
         swedish_tax |-> Numeric2(StoredSwedishTax(payroll_record)),
         finnish_tax_withholding |-> Numeric2(payroll_record.tax_withholding),
         tax_free_portion |-> Numeric2(payroll_record.tax_free_portion),
         pension_insurance |-> Numeric2(payroll_record.pension_insurance),
         ytd_gross |-> Numeric2(payroll_record.year_to_date_gross),
         ytd_tax_free |-> Numeric2(payroll_record.year_to_date_tax_free),
         salary_items |->
             [i \in 1..Len(items) |->
                 [code |-> items[i].code, description |-> items[i].description,
                  quantity |-> items[i].quantity, rate |-> Numeric2(items[i].rate),
                  total |-> Numeric2(items[i].total),
                  item_type |-> classify_salary_item(items[i].code)]]
             \o [i \in 1..Len(bens) |->
                 [code |-> bens[i].code, description |-> bens[i].description,
                  quantity |-> bens[i].quantity, rate |-> Numeric2(bens[i].rate),
                  total |-> Numeric2(bens[i].total), item_type |-> "benefit"]],
         deductions |->
             [i \in 1..Len(deds) |->
                 [code |-> deds[i].code, description |-> deds[i].description,
                  amount |-> Numeric2(deds[i].amount),
                  deduction_type |-> classify_deduction(deds[i].code,
                                                        deds[i].description)]]]

\* PayrollRepository.save_payroll_record: always an insert, the id autoincrements
save_payroll_record(table, payroll_record) ==
    Append(table, PayrollRecordDB(Len(table) + 1, payroll_record))

\* PayrollRepository.save_employee: insert or update by id
save_employee(table, employee_id) == table \cup {employee_id}

\* PayrollRepository.get_payroll_record's query, before .first()
MatchingRecords(table, employee_id, year, month) ==
    SelectSeq(table, LAMBDA row : /\ row.employee_id = employee_id
                                  /\ row.year = year
                                  /\ row.month = month)

\* ------------------------------------------- reset_and_populate_database
PopulateYear == 2025

EmployeeIds(roster) == { roster[i].employee_id : i \in 1..Len(roster) }

\* ytd_accumulators.get(employee_id, {'gross': 0, 'tax_free': 0})
GetYtd(accumulators, employee_id) ==
    IF employee_id \in DOMAIN accumulators THEN accumulators[employee_id]
    ELSE ZeroYtd

\* the dict the employee loop works with: created anew, all zero, in every
\* iteration of the first period of January
LoopAccumulators(accumulators, month, idx) ==
    IF month = 1 /\ idx = 1
    THEN [id \in EmployeeIds(PopulateEmployees) |-> ZeroYtd]
    ELSE accumulators

InitPopulate ==
    /\ built = <<>>
    /\ payroll_records = <<>>
    /\ employees = {}
    /\ all_records = <<>>
    /\ calls = 0
    /\ pc = "start"
    /\ loop_month = 1
    /\ period_idx = 1
    /\ emp_idx = 1
    /\ ytd_accumulators = <<>>
    /\ payroll_input = <<>>
    /\ sheet = <<>>
    /\ annual = <<>>
    /\ classify_input = <<>>
    /\ classified = <<>>
    /\ files = <<>>
    /\ generated = NotGenerated
    /\ tax_form_submissions = <<>>
    /\ annual_summaries = <<>>

\* steps 1 to 4: drop and create the tables, save the employees
ResetDatabase ==
    /\ pc = "start"
    /\ payroll_records' = <<>>
    /\ tax_form_submissions' = <<>>
    /\ annual_summaries' = <<>>
    /\ employees' = EmployeeIds(PopulateEmployees)
    /\ pc' = "loop"
    /\ loop_month' = 1
    /\ period_idx' = 1
    /\ emp_idx' = 1
    /\ UNCHANGED << built, appVars, ytd_accumulators, monthlyVars, annualVars, classifyVars, fileVars >>

\* the body of the employee loop of step 5, the random draws being w: the
\* record built and the accumulators as the iteration leaves them
PopulateIteration(accumulators_in, month, idx, e, w) ==
    LET emp_data == PopulateEmployees[e]
        period == get_pay_periods_for_month(PopulateYear, month)[idx]
        accumulators == LoopAccumulators(accumulators_in, month, idx)
        ytd == GetYtd(accumulators, emp_data.employee_id)
        made == create_realistic_payroll_record(emp_data, period[1], period[2],
                                                period[3], ytd, w)
    IN  [record |-> made.record,
         accumulators |->
             IF emp_data.employee_id \in DOMAIN accumulators
             THEN [accumulators EXCEPT
                      ![emp_data.employee_id] = made.ytd_accumulator]
             ELSE accumulators]

\* one iteration of the employee loop, saving the record
PopulateStep(w) ==
    /\ pc = "loop"
    /\ LET it == PopulateIteration(ytd_accumulators, loop_month, period_idx,
                                   emp_idx, w)
       IN  /\ ytd_accumulators' = it.accumulators
           /\ payroll_records' = save_payroll_record(payroll_records, it.record)
    /\ IF emp_idx < Len(PopulateEmployees)
       THEN /\ emp_idx' = emp_idx + 1
            /\ UNCHANGED << period_idx, loop_month, pc >>
       ELSE /\ emp_idx' = 1
            /\ IF period_idx < 2
               THEN /\ period_idx' = period_idx + 1
                    /\ UNCHANGED << loop_month, pc >>
               ELSE /\ period_idx' = 1
                    /\ IF loop_month < MaxMonth
                       THEN loop_month' = loop_month + 1 /\ UNCHANGED pc
                       ELSE pc' = "done" /\ UNCHANGED loop_month
    /\ UNCHANGED << built, employees, tax_form_submissions, annual_summaries,
                   appVars, monthlyVars,
                   annualVars, classifyVars, fileVars >>

NextPopulate ==
    \/ ResetDatabase
    \/ \E w \in RealisticWorkInputs : PopulateStep(w)

SpecPopulate == InitPopulate /\ [][NextPopulate]_vars

\* ------------------------------------------------------------------ app.py
\* FindEmployee falling back on the first roster entry
FindEmployee_OrFirst(employee_id) ==
    LET found == SelectSeq(MOCK_EMPLOYEES,
                           LAMBDA e : e.employee_id = employee_id)
    IN  IF found = <<>> THEN << MOCK_EMPLOYEES[1] >> ELSE << Head(found) >>

\* MockLikeitAPI.get_employee_payroll: the roster entry with this id, or none
FindEmployee(employee_id) ==
    LET found == SelectSeq(MOCK_EMPLOYEES,
                           LAMBDA e : e.employee_id = employee_id)
    IN  IF found = <<>> THEN <<>> ELSE << Head(found) >>

\* MockLikeitAPI.get_employee_payroll: ValueError for an unknown id
get_employee_payroll(employee_id, year, month, w) ==
    IF FindEmployee(employee_id) = <<>>
    THEN [error |-> "ValueError", record |-> <<>>]
    ELSE [error |-> "",
          record |-> << generate_payroll_record(FindEmployee(employee_id)[1],
                                                 year, month, w) >>]

\* last_day of generate_payroll_data's second period
AppLastDay(year, month) ==
    IF month = 12 THEN 31
    ELSE IF month \in {4, 6, 9, 11} THEN 30
    ELSE IF month = 2 THEN (IF year % 4 # 0 THEN 28 ELSE 29)
    ELSE 31

\* date(year, month, day) raises ValueError for a day the month does not have
ValidDate(year, month, day) == day \in 1..DaysInMonth(year, month)

\* generate_payroll_data raises ValueError when the first iteration of its
\* second loop evaluates date(year, month, last_day)
AppRaises(year, month) == ~ValidDate(year, month, AppLastDay(year, month))

\* the draws generate_payroll_data is explored with, and its arguments
AppWorkInputs == {
    [regular_hours |-> 6010, overtime_hours |-> 0, overtime_50_hours |-> 0,
     evening_hours |-> 1000, per_diem_days |-> 5],
    [regular_hours |-> 7990, overtime_hours |-> 1000, overtime_50_hours |-> 400,
     evening_hours |-> 1000, per_diem_days |-> 12] }
AppYears == {2025}
AppMonths == 1..MaxMonth

\* a record of generate_payroll_data's first loop: the record of the API with
\* its period overwritten to days 1-15
FirstPeriodRecord(employee_id, year, month, w) ==
    [get_employee_payroll(employee_id, year, month, w).record[1] EXCEPT
        !.pay_period_start = Date(year, month, 1),
        !.pay_period_end = Date(year, month, 15)]

\* a record of its second loop: period overwritten to days 16-last_day
SecondPeriodRecord(employee_id, year, month, w) ==
    [get_employee_payroll(employee_id, year, month, w).record[1] EXCEPT
        !.pay_period_start = Date(year, month, 16),
        !.pay_period_end = Date(year, month, AppLastDay(year, month))]

\* all_records of generate_payroll_data; f[i] are the draws of the i-th call
\* of the API
AppRecords(year, month, f) ==
    LET n == Len(MOCK_EMPLOYEES)
    IN  [i \in 1..n |-> FirstPeriodRecord(MOCK_EMPLOYEES[i].employee_id,
                                          year, month, f[i])]
        \o [i \in 1..n |-> SecondPeriodRecord(MOCK_EMPLOYEES[i].employee_id,
                                              year, month, f[n + i])]

\* what the API returned to generate_payroll_data's 2n calls, before the
\* periods are overwritten
ApiReturns(year, month, f) ==
    LET n == Len(MOCK_EMPLOYEES)
    IN  [k \in 1..(2 * n) |->
            [builder |-> "mock", month |-> month, ytd_before |-> ZeroYtd,
             record |-> get_employee_payroll(
                            MOCK_EMPLOYEES[((k - 1) % n) + 1].employee_id,
                            year, month, f[k]).record[1]]]

\* the saving loop of generate_payroll_data, on the payroll table
RECURSIVE SaveAll(_, _)
SaveAll(table, records) ==
    IF records = <<>> THEN table
    ELSE SaveAll(save_payroll_record(table, Head(records)), Tail(records))

Init ==
    /\ built = <<>>
    /\ payroll_records = <<>>
    /\ employees = {}
    /\ all_records = <<>>
    /\ calls = 0
    /\ pc = "idle"
    /\ loop_month = 1
    /\ period_idx = 1
    /\ emp_idx = 1
    /\ ytd_accumulators = <<>>
    /\ payroll_input = <<>>
    /\ sheet = <<>>
    /\ annual = <<>>
    /\ classify_input = <<>>
    /\ classified = <<>>
    /\ files = <<>>
    /\ generated = NotGenerated
    /\ tax_form_submissions = <<>>
    /\ annual_summaries = <<>>

\* generate_payroll_data(year, month); when it raises, the API has been called
\* for the first loop and once for the second, and nothing is saved
GeneratePayrollData(year, month, f) ==
    /\ calls < MaxCalls
    /\ calls' = calls + 1
    /\ IF AppRaises(year, month)
       THEN /\ built' = SubSeq(ApiReturns(year, month, f), 1,
                               Len(MOCK_EMPLOYEES) + 1)
            /\ UNCHANGED << all_records, dbVars >>
       ELSE /\ all_records' = AppRecords(year, month, f)
            /\ employees' = employees \cup EmployeeIds(all_records')
            /\ payroll_records' = SaveAll(payroll_records, all_records')
            /\ UNCHANGED << tax_form_submissions, annual_summaries >>
            /\ built' = ApiReturns(year, month, f)
    /\ UNCHANGED << populateVars, monthlyVars, annualVars, classifyVars, fileVars >>

Next ==
    \E year \in AppYears, month \in AppMonths,
       f \in [1..(2 * Len(MOCK_EMPLOYEES)) -> AppWorkInputs] :
        GeneratePayrollData(year, month, f)

Spec == Init /\ [][Next]_vars

\* the first call of generate_payroll_data, for any month of a leap year, a
\* common year and a century year
PeriodYears == {2024, 2025, 2100}

NextPeriods ==
    \E year \in PeriodYears, month \in 1..12,
       f \in [1..(2 * Len(MOCK_EMPLOYEES)) -> AppWorkInputs] :
        calls = 0 /\ GeneratePayrollData(year, month, f)

SpecPeriods == Init /\ [][NextPeriods]_vars

\* ------------------------------------------- MonthlyAllWorkersGenerator
\* self.SEK_TO_EUR = Decimal('0.086'), in thousandths
SEK_TO_EUR == 86

\* amount / self.SEK_TO_EUR: an amount in EUR as an amount in SEK
ToSek(amount) == DivRound(amount * ((1000 * SEK) \div EUR), SEK_TO_EUR)

\* FirstHalf sending day 15 to the second half
FirstHalf_Before15(records) ==
    SelectSeq(records, LAMBDA record : record.pay_period_start.day < 15)

\* first_half of generate: the records with pay_period_start.day <= 15
FirstHalf(records) ==
    SelectSeq(records, LAMBDA record : record.pay_period_start.day <= 15)

\* second_half of generate: the records of the else branch
SecondHalf(records) ==
    SelectSeq(records, LAMBDA record : ~(record.pay_period_start.day <= 15))

\* swedish_tax_eur of _write_single_record and _write_combined_totals_inline
SwedishTaxEur(record) ==
    LET d == record.deductions
    IN  SumSeq([i \in 1..Len(d) |->
                  IF Contains(d[i].description, "Swedish")
                     \/ Contains(d[i].description, "Ruotsin")
                  THEN Abs(d[i].amount) ELSE 0])

\* the values _write_single_record computes and writes for a record
SingleRecordValues(record) ==
    LET ansiot_eur == record.gross_salary - record.tax_free_portion
        ansiot_sek == ToSek(ansiot_eur)
        paivarahat_sek == ToSek(record.tax_free_portion)
    IN  [employee_id |-> record.employee_id,
         calc_num_ruotsi |-> 136445 + record.pay_period_start.month * 100,
         paivarahat_count |-> IF record.tax_free_portion > 0 THEN 5 ELSE 0,
         ansiot_eur |-> ansiot_eur,
         ansiot_sek |-> ansiot_sek,
         paivarahat_sek |-> paivarahat_sek,
         ansiot_sek_yht |-> ansiot_sek + paivarahat_sek,
         vero_eur |-> SwedishTaxEur(record)]

ZeroPeriodTotals ==
    [ansiot_eur |-> 0, ansiot_sek |-> 0, paivarahat_sek |-> 0,
     ansiot_sek_yht |-> 0, vero_eur |-> 0]

\* "Update totals" of _write_single_record
AddToPeriodTotals(totals, v) ==
    [ansiot_eur |-> totals.ansiot_eur + v.ansiot_eur,
     ansiot_sek |-> totals.ansiot_sek + v.ansiot_sek,
     paivarahat_sek |-> totals.paivarahat_sek + v.paivarahat_sek,
     ansiot_sek_yht |-> totals.ansiot_sek_yht + v.ansiot_sek_yht,
     vero_eur |-> totals.vero_eur + v.vero_eur]

RECURSIVE PeriodTotals(_)
PeriodTotals(half) ==
    IF half = <<>> THEN ZeroPeriodTotals
    ELSE AddToPeriodTotals(PeriodTotals(SubSeq(half, 1, Len(half) - 1)),
                           SingleRecordValues(half[Len(half)]))

Max(a, b) == IF a >= b THEN a ELSE b

\* _write_combined_period_data: data row i (sheet row 3 + i) holds the i-th
\* record of each half, side by side; then the period totals
write_combined_period_data(first_half, second_half) ==
    LET max_employees == Max(Len(first_half), Len(second_half))
    IN  [rows |->
            [i \in 1..max_employees |->
                [row |-> 3 + i,
                 first |-> IF i <= Len(first_half)
                           THEN << SingleRecordValues(first_half[i]) >> ELSE <<>>,
                 second |-> IF i <= Len(second_half)
                            THEN << SingleRecordValues(second_half[i]) >> ELSE <<>>]],
         first_totals |-> PeriodTotals(first_half),
         second_totals |-> PeriodTotals(second_half)]

\* employee_records of _write_combined_totals_inline: the employee ids in the
\* order of their first record (dict insertion order)
RECURSIVE EmployeeOrder(_)
EmployeeOrder(all) ==
    IF all = <<>> THEN <<>>
    ELSE LET before == EmployeeOrder(SubSeq(all, 1, Len(all) - 1))
             id == all[Len(all)].employee_id
         IN  IF \E i \in 1..Len(before) : before[i] = id THEN before
             ELSE Append(before, id)

RecordsOf(all, employee_id) ==
    SelectSeq(all, LAMBDA record : record.employee_id = employee_id)

\* travel_comp: benefits with 'MK' in the code or 'matka' in the description
TravelComp(record) ==
    LET b == record.benefits
    IN  SumSeq([i \in 1..Len(b) |->
                  IF b[i].code = "MK002" THEN b[i].total ELSE 0])

ZeroTotals ==
    [km_korvauksia |-> 0, ansiot_sek |-> 0, paivarahat_sek |-> 0,
     ansiot_sek_yht |-> 0, vero_sek |-> 0, vero_eur |-> 0]

\* RecordContribution leaving the per diem out of ansiot_sek_yht
RecordContribution_NoPerDiem(record) ==
    LET ansiot_eur == record.gross_salary - record.tax_free_portion
        ansiot_sek == ToSek(ansiot_eur)
        paivarahat_sek == ToSek(record.tax_free_portion)
        swedish_tax_eur == SwedishTaxEur(record)
    IN  [km_korvauksia |-> TravelComp(record),
         ansiot_sek |-> ansiot_sek,
         paivarahat_sek |-> paivarahat_sek,
         ansiot_sek_yht |-> ansiot_sek,
         vero_sek |-> ToSek(swedish_tax_eur),
         vero_eur |-> swedish_tax_eur]

\* what one record adds to its employee's totals in
\* _write_combined_totals_inline
RecordContribution(record) ==
    LET ansiot_eur == record.gross_salary - record.tax_free_portion
        ansiot_sek == ToSek(ansiot_eur)
        paivarahat_sek == ToSek(record.tax_free_portion)
        swedish_tax_eur == SwedishTaxEur(record)
    IN  [km_korvauksia |-> TravelComp(record),
         ansiot_sek |-> ansiot_sek,
         paivarahat_sek |-> paivarahat_sek,
         ansiot_sek_yht |-> ansiot_sek + paivarahat_sek,
         vero_sek |-> ToSek(swedish_tax_eur),
         vero_eur |-> swedish_tax_eur]

AddTotals(a, b) ==
    [km_korvauksia |-> a.km_korvauksia + b.km_korvauksia,
     ansiot_sek |-> a.ansiot_sek + b.ansiot_sek,
     paivarahat_sek |-> a.paivarahat_sek + b.paivarahat_sek,
     ansiot_sek_yht |-> a.ansiot_sek_yht + b.ansiot_sek_yht,
     vero_sek |-> a.vero_sek + b.vero_sek,
     vero_eur |-> a.vero_eur + b.vero_eur]

\* employee_totals: the loop over one employee's records
RECURSIVE EmployeeTotals(_)
EmployeeTotals(records) ==
    IF records = <<>> THEN ZeroTotals
    ELSE AddTotals(EmployeeTotals(SubSeq(records, 1, Len(records) - 1)),
                   RecordContribution(records[Len(records)]))

\* GrandTotals leaving out the last employee
RECURSIVE GrandTotals_LastSkipped(_)
GrandTotals_LastSkipped(combined) ==
    IF Len(combined) <= 1 THEN ZeroTotals
    ELSE AddTotals(GrandTotals_LastSkipped(SubSeq(combined, 1, Len(combined) - 1)),
                   combined[Len(combined) - 1].totals)

\* grand_totals: every key of every employee's totals added up
RECURSIVE GrandTotals(_)
GrandTotals(combined) ==
    IF combined = <<>> THEN ZeroTotals
    ELSE AddTotals(GrandTotals(SubSeq(combined, 1, Len(combined) - 1)),
                   combined[Len(combined)].totals)

\* _write_combined_totals_inline: the k-th employee's totals on sheet row
\* 3 + k, the grand totals on the row after the last
write_combined_totals_inline(all) ==
    LET order == EmployeeOrder(all)
        combined == [k \in 1..Len(order) |->
                        [row |-> 3 + k,
                         employee_id |-> order[k],
                         totals |-> EmployeeTotals(RecordsOf(all, order[k]))]]
    IN  [combined |-> combined,
         grand_row |-> 4 + Len(order),
         grand_totals |-> GrandTotals(combined)]

\* MonthlyAllWorkersGenerator.generate: what it writes to the worksheet
generate(records) ==
    LET first_half == FirstHalf(records)
        second_half == SecondHalf(records)
        data == write_combined_period_data(first_half, second_half)
        totals == write_combined_totals_inline(first_half \o second_half)
    IN  [first_half |-> first_half,
         second_half |-> second_half,
         rows |-> data.rows,
         first_totals |-> data.first_totals,
         second_totals |-> data.second_totals,
         combined |-> totals.combined,
         grand_row |-> totals.grand_row,
         grand_totals |-> totals.grand_totals]

\* the records reset_and_populate_database builds in its first k iterations,
\* f[i] being the draws of iteration i
RECURSIVE PopulateRun(_, _)
PopulateRun(k, f) ==
    IF k = 0 THEN [accumulators |-> <<>>, records |-> <<>>]
    ELSE LET before == PopulateRun(k - 1, f)
             n == Len(PopulateEmployees)
             it == PopulateIteration(before.accumulators, 1,
                                     ((k - 1) \div n) + 1, ((k - 1) % n) + 1, f[k])
         IN  [accumulators |-> it.accumulators,
              records |-> Append(before.records, it.record)]

\* the record lists generate is given: a month of generate_payroll_data
\* (periods 1-15 and 16-end) and a month of the bi-weekly records of
\* get_pay_periods_for_month (periods 1-14 and 15-end)
\* and lists of create_realistic_payroll_record's records over the periods
\* 1-15 and 16-end, whose second half names the employees in either order or
\* leaves one out
HalfMonthOrders == { << 1, 2 >>, << 2, 1 >>, << 2 >> }

HalfMonthRecords(order, f) ==
    LET first(i) == create_realistic_payroll_record(PopulateEmployees[i],
                        Date(2025, 1, 1), Date(2025, 1, 15), Date(2025, 1, 20),
                        ZeroYtd, f[i]).record
        second(k) == create_realistic_payroll_record(PopulateEmployees[order[k]],
                        Date(2025, 1, 16), Date(2025, 1, 31), Date(2025, 1, 31),
                        ZeroYtd, f[2 + k]).record
    IN  [i \in 1..2 |-> first(i)] \o [k \in 1..Len(order) |-> second(k)]

MonthlyInputs ==
    { [scheme |-> "half-month",
       records |-> AppRecords(2025, 1, f)] :
         f \in [1..(2 * Len(MOCK_EMPLOYEES)) -> AppWorkInputs] }
    \cup
    { [scheme |-> "bi-weekly",
       records |-> PopulateRun(2 * Len(PopulateEmployees), f).records] :
         f \in [1..(2 * Len(PopulateEmployees)) -> RealisticWorkInputs] }
    \cup
    UNION { { [scheme |-> "half-month",
               records |-> HalfMonthRecords(order, f)] :
                 f \in [1..(2 + Len(order)) -> RealisticWorkInputs] } :
            order \in HalfMonthOrders }

InitMonthly ==
    /\ built = <<>>
    /\ payroll_records = <<>>
    /\ employees = {}
    /\ all_records = <<>>
    /\ calls = 0
    /\ pc = "idle"
    /\ loop_month = 1
    /\ period_idx = 1
    /\ emp_idx = 1
    /\ ytd_accumulators = <<>>
    /\ payroll_input \in MonthlyInputs
    /\ sheet = <<>>
    /\ annual = <<>>
    /\ classify_input = <<>>
    /\ classified = <<>>
    /\ files = <<>>
    /\ generated = NotGenerated
    /\ tax_form_submissions = <<>>
    /\ annual_summaries = <<>>

\* MonthlyAllWorkersGenerator().generate(payroll_records, year, month)
Generate ==
    /\ sheet' = << generate(payroll_input.records) >>
    /\ UNCHANGED << built, dbVars, appVars, populateVars, payroll_input,
                   annualVars, classifyVars, fileVars >>

NextMonthly == Generate

SpecMonthly == InitMonthly /\ [][NextMonthly]_vars

\* ------------------------------------------------ PersonalTaxCalculator
\* PayrollRepository.get_payroll_records(employee_id, year): the employee's
\* rows of the year, ordered by month
get_payroll_records(table, employee_id, year) ==
    LET OfMonth(month) ==
            SelectSeq(table, LAMBDA row : /\ row.employee_id = employee_id
                                          /\ row.year = year
                                          /\ row.month = month)
        UpTo[month \in 0..12] ==
            IF month = 0 THEN <<>> ELSE UpTo[month - 1] \o OfMonth(month)
    IN  UpTo[12]

\* the hours one salary item adds: [regular_hours, overtime_hours]
ItemHours(item) ==
    IF item.quantity # 0
    THEN IF item.code = "12101"
         THEN [regular_hours |-> item.quantity, overtime_hours |-> 0]
         ELSE IF item.code \in {"12101_2", "12102"}
         THEN [regular_hours |-> 0, overtime_hours |-> item.quantity]
         ELSE [regular_hours |-> 0, overtime_hours |-> 0]
    ELSE [regular_hours |-> 0, overtime_hours |-> 0]

RECURSIVE RecordHours(_)
RecordHours(salary_items) ==
    IF salary_items = <<>> THEN [regular_hours |-> 0, overtime_hours |-> 0]
    ELSE LET before == RecordHours(SubSeq(salary_items, 1, Len(salary_items) - 1))
             h == ItemHours(salary_items[Len(salary_items)])
         IN  [regular_hours |-> before.regular_hours + h.regular_hours,
              overtime_hours |-> before.overtime_hours + h.overtime_hours]

ZeroAnnualTotals ==
    [total_gross |-> 0, total_hours |-> 0, regular_hours |-> 0,
     overtime_hours |-> 0, swedish_tax |-> 0, finnish_tax |-> 0,
     pension |-> 0, tax_free |-> 0, total_net |-> 0]

\* AddRecordToTotals adding the withholding and the pension with their sign
AddRecordToTotals_Signed(totals, record) ==
    LET h == RecordHours(record.salary_items)
    IN  [totals EXCEPT
            !.total_gross = @ + record.gross_salary,
            !.swedish_tax = @ + record.swedish_tax,
            !.finnish_tax = @ + record.finnish_tax_withholding,
            !.pension = @ + record.pension_insurance,
            !.tax_free = @ + record.tax_free_portion,
            !.total_net = @ + record.net_payment,
            !.regular_hours = @ + h.regular_hours,
            !.overtime_hours = @ + h.overtime_hours]

\* the body of the loop over the records in _calculate_annual_totals
AddRecordToTotals(totals, record) ==
    LET h == RecordHours(record.salary_items)
    IN  [totals EXCEPT
            !.total_gross = @ + record.gross_salary,
            !.swedish_tax = @ + record.swedish_tax,
            !.finnish_tax = @ + Abs(record.finnish_tax_withholding),
            !.pension = @ + Abs(record.pension_insurance),
            !.tax_free = @ + record.tax_free_portion,
            !.total_net = @ + record.net_payment,
            !.regular_hours = @ + h.regular_hours,
            !.overtime_hours = @ + h.overtime_hours]

RECURSIVE AnnualLoop(_)
AnnualLoop(records) ==
    IF records = <<>> THEN ZeroAnnualTotals
    ELSE AddRecordToTotals(AnnualLoop(SubSeq(records, 1, Len(records) - 1)),
                           records[Len(records)])

\* PersonalTaxCalculator._calculate_annual_totals (the 'health' total, of a
\* column the model's rows do not carry, left out)
calculate_annual_totals(records) ==
    LET totals == AnnualLoop(records)
    IN  [totals EXCEPT !.total_hours = totals.regular_hours + totals.overtime_hours]

\* repo.get_all_employees(): the saved employees, those of
\* reset_and_populate_database before those of the API
get_all_employees(ids) ==
    SelectSeq([i \in 1..Len(PopulateEmployees) |-> PopulateEmployees[i].employee_id]
              \o [i \in 1..Len(MOCK_EMPLOYEES) |-> MOCK_EMPLOYEES[i].employee_id],
              LAMBDA id : id \in ids)

ZeroCompanyTotals ==
    [gross |-> 0, hours |-> 0, swedish_tax |-> 0, finnish_tax |-> 0,
     pension |-> 0, tax_free |-> 0, net |-> 0]

\* "Update company totals"
AddToCompanyTotals(company_totals, annual_data) ==
    [gross |-> company_totals.gross + annual_data.total_gross,
     hours |-> company_totals.hours + annual_data.total_hours,
     swedish_tax |-> company_totals.swedish_tax + annual_data.swedish_tax,
     finnish_tax |-> company_totals.finnish_tax + annual_data.finnish_tax,
     pension |-> company_totals.pension + annual_data.pension,
     tax_free |-> company_totals.tax_free + annual_data.tax_free,
     net |-> company_totals.net + annual_data.total_net]

\* AllWorkersLoop adding an employee's totals before looking at 'not records'
RECURSIVE AllWorkersLoop_NoSkip(_, _, _)
AllWorkersLoop_NoSkip(table, ids, year) ==
    IF ids = <<>> THEN [rows |-> <<>>, company_totals |-> ZeroCompanyTotals]
    ELSE LET before == AllWorkersLoop_NoSkip(table, SubSeq(ids, 1, Len(ids) - 1), year)
             records == get_payroll_records(table, ids[Len(ids)], year)
             annual_data == calculate_annual_totals(records)
         IN  [rows |-> Append(before.rows,
                              [row |-> 5 + Len(before.rows),
                               employee_id |-> ids[Len(ids)],
                               annual_data |-> annual_data]),
              company_totals |-> AddToCompanyTotals(before.company_totals,
                                                    annual_data)]

\* the loop over the employees of generate_all_workers_annual_summary: a row
\* and a share of the company totals for each employee with records
RECURSIVE AllWorkersLoop(_, _, _)
AllWorkersLoop(table, ids, year) ==
    IF ids = <<>> THEN [rows |-> <<>>, company_totals |-> ZeroCompanyTotals]
    ELSE LET before == AllWorkersLoop(table, SubSeq(ids, 1, Len(ids) - 1), year)
             records == get_payroll_records(table, ids[Len(ids)], year)
             annual_data == calculate_annual_totals(records)
         IN  IF records = <<>> THEN before
             ELSE [rows |-> Append(before.rows,
                                   [row |-> 5 + Len(before.rows),
                                    employee_id |-> ids[Len(ids)],
                                    annual_data |-> annual_data]),
                   company_totals |-> AddToCompanyTotals(before.company_totals,
                                                         annual_data)]

\* PersonalTaxCalculator.generate_all_workers_annual_summary(year)
generate_all_workers_annual_summary(table, ids, year) ==
    LET all == get_all_employees(ids)
    IN  IF all = <<>>
        THEN [error |-> "ValueError", year |-> year, rows |-> <<>>,
              company_totals |-> ZeroCompanyTotals]
        ELSE [error |-> "", year |-> year,
              rows |-> AllWorkersLoop(table, all, year).rows,
              company_totals |-> AllWorkersLoop(table, all, year).company_totals]

\* the draws the databases below are filled with
PopulateDraws ==
    LET n == Len(PopulateEmployees)
    IN  { [k \in 1..(2 * n) |-> IF k > n THEN c ELSE IF k % 2 = 1 THEN a ELSE b] :
            a \in RealisticWorkInputs, b \in RealisticWorkInputs,
            c \in RealisticWorkInputs }

AppDraws ==
    LET n == Len(MOCK_EMPLOYEES)
    IN  { [k \in 1..(2 * n) |-> IF k <= n THEN a ELSE IF k = n + 1 THEN b ELSE c] :
            a \in AppWorkInputs, b \in AppWorkInputs, c \in AppWorkInputs }

AnnualYears == {2024, 2025}

\* the databases the summary is made from: the empty one; one filled by
\* generate_payroll_data for a January; one filled by
\* reset_and_populate_database for January 2025 and then by
\* generate_payroll_data for January 2024
AnnualDatabases ==
    { [payroll_records |-> <<>>, employees |-> {}] }
    \cup
    { [payroll_records |-> SaveAll(<<>>, AppRecords(year, 1, g)),
       employees |-> EmployeeIds(MOCK_EMPLOYEES)] :
         year \in AnnualYears, g \in AppDraws }
    \cup
    { [payroll_records |->
           SaveAll(SaveAll(<<>>, PopulateRun(2 * Len(PopulateEmployees), f).records),
                   AppRecords(2024, 1, g)),
       employees |-> EmployeeIds(PopulateEmployees) \cup EmployeeIds(MOCK_EMPLOYEES)] :
         f \in PopulateDraws, g \in AppDraws }

InitAnnual ==
    /\ \E db \in AnnualDatabases :
          /\ payroll_records = db.payroll_records
          /\ employees = db.employees
    /\ built = <<>>
    /\ all_records = <<>>
    /\ calls = 0
    /\ pc = "idle"
    /\ loop_month = 1
    /\ period_idx = 1
    /\ emp_idx = 1
    /\ ytd_accumulators = <<>>
    /\ payroll_input = <<>>
    /\ sheet = <<>>
    /\ annual = <<>>
    /\ classify_input = <<>>
    /\ classified = <<>>
    /\ files = <<>>
    /\ generated = NotGenerated
    /\ tax_form_submissions = <<>>
    /\ annual_summaries = <<>>

\* PersonalTaxCalculator(repo).generate_all_workers_annual_summary(year)
GenerateAnnualSummary(year) ==
    /\ annual' = << generate_all_workers_annual_summary(payroll_records,
                                                        employees, year) >>
    /\ UNCHANGED << built, dbVars, appVars, populateVars, monthlyVars,
                   classifyVars, fileVars >>

NextAnnual == \E year \in AnnualYears : GenerateAnnualSummary(year)

SpecAnnual == InitAnnual /\ [][NextAnnual]_vars

\* ------------------------------------------- the classifiers, called alone
\* the codes _classify_salary_item is called with: those of the builders and
\* codes around its prefixes
ItemCodes ==
    { "12101", "12101_2", "12102", "12107", "MK002", "PVR003",
      "", "1210", "121010", "12102_1", "12103", "12107X", "X12101", "112101",
      "M", "MK", "MKX", "mk002", "PV", "PVR", "PVRX", "KM002", "99999" }

\* the deductions _classify_deduction is called with: those of the builders
\* and others a payroll system sends
DeductionCodes == { "VAH", "ENNPID", "TYEL", "AY" }

DeductionDescriptions ==
    { DescSwedishIncome, DescSwedishAllowance, DescEnnakonpidatys,
      "Tyottomyysvakuutusmaksu", "Pension insurance (TyEL)", "Income Tax",
      "Ay-jasenmaksu", "Ulosotto" }

InitClassify ==
    /\ classify_input \in
          { [kind |-> "salary_item", code |-> code] : code \in ItemCodes }
          \cup
          { [kind |-> "deductions",
             first |-> [code |-> c1, description |-> d1],
             second |-> [code |-> c2, description |-> d2]] :
               c1 \in DeductionCodes, d1 \in DeductionDescriptions,
               c2 \in DeductionCodes, d2 \in DeductionDescriptions }
    /\ classified = <<>>
    /\ files = <<>>
    /\ generated = NotGenerated
    /\ tax_form_submissions = <<>>
    /\ annual_summaries = <<>>
    /\ built = <<>>
    /\ payroll_records = <<>>
    /\ employees = {}
    /\ all_records = <<>>
    /\ calls = 0
    /\ pc = "idle"
    /\ loop_month = 1
    /\ period_idx = 1
    /\ emp_idx = 1
    /\ ytd_accumulators = <<>>
    /\ payroll_input = <<>>
    /\ sheet = <<>>
    /\ annual = <<>>

\* self._classify_salary_item(item.code)
ClassifySalaryItem ==
    /\ classify_input.kind = "salary_item"
    /\ classified' = << classify_salary_item(classify_input.code) >>
    /\ UNCHANGED << built, dbVars, appVars, populateVars, monthlyVars,
                   annualVars, classify_input, fileVars >>

\* self._classify_deduction(deduction.code, deduction.description), for two
\* deductions
ClassifyDeductions ==
    /\ classify_input.kind = "deductions"
    /\ classified' =
          << classify_deduction(classify_input.first.code,
                                classify_input.first.description),
             classify_deduction(classify_input.second.code,
                                classify_input.second.description) >>
    /\ UNCHANGED << built, dbVars, appVars, populateVars, monthlyVars,
                   annualVars, classify_input, fileVars >>

NextClassify == ClassifySalaryItem \/ ClassifyDeductions

SpecClassify == InitClassify /\ [][NextClassify]_vars

\* ------------------------------------------------- currency conversion
\* Decimal arithmetic keeps 28 significant digits (the default context
\* precision) and rounds half to even.  A Decimal is modelled by its 28
\* digits, most significant first, and the exponent of the last digit.
DecimalPrec == 28

\* largest amount, in cents, that is converted
MaxCents == 100

\* the decimal digits of n, most significant first (none for 0)
RECURSIVE DigitsOf(_)
DigitsOf(n) == IF n = 0 THEN <<>> ELSE Append(DigitsOf(n \div 10), n % 10)

\* n zero digits
Zeros(n) == [i \in 1..n |-> 0]

RECURSIVE Pow10(_)
Pow10(k) == IF k = 0 THEN 1 ELSE 10 * Pow10(k - 1)

\* the number written by a short digit sequence
RECURSIVE ValueOf(_)
ValueOf(digits) == IF digits = <<>> THEN 0 ELSE 10 * ValueOf(SubSeq(digits, 1, Len(digits) - 1)) + digits[Len(digits)]

\* num / den written as (n / d) * 10^shift with n < d <= 10 * n
RECURSIVE Scale(_, _, _)
Scale(num, den, shift) == IF num >= den THEN Scale(num, den * 10, shift + 1) ELSE IF num * 10 < den THEN Scale(num * 10, den, shift - 1) ELSE [num |-> num, den |-> den, shift |-> shift]

\* the next n digits of rem / den and the remainder left after them
RECURSIVE LongDivision(_, _, _)
LongDivision(rem, den, n) == IF n = 0 THEN [digits |-> <<>>, rem |-> rem] ELSE LET rest == LongDivision((rem * 10) % den, den, n - 1) IN [digits |-> <<(rem * 10) \div den>> \o rest.digits, rem |-> rest.rem]

\* digits + 1; one digit longer when every digit was 9
RECURSIVE Increment(_)
Increment(digits) == IF digits = <<>> THEN <<1>> ELSE IF digits[Len(digits)] < 9 THEN [digits EXCEPT ![Len(digits)] = @ + 1] ELSE Append(Increment(SubSeq(digits, 1, Len(digits) - 1)), 0)

\* a rounded-up coefficient that reached 10^28 is 10^27 one exponent higher
Fit(digits, exp) ==
    IF Len(digits) > DecimalPrec
    THEN [digits |-> SubSeq(digits, 1, DecimalPrec), exp |-> exp + 1]
    ELSE [digits |-> digits, exp |-> exp]

\* DecimalDivide without the rounding of the last digit (ROUND_DOWN)
DecimalDivide_Truncated(num, num_exp, den, den_exp) ==
    IF num = 0
    THEN [digits |-> Zeros(DecimalPrec), exp |-> num_exp - den_exp]
    ELSE LET s == Scale(num, den, 0)
             q == LongDivision(s.num, s.den, DecimalPrec)
         IN  [digits |-> q.digits,
              exp |-> s.shift - DecimalPrec + num_exp - den_exp]

\* Decimal / Decimal of (num * 10^num_exp) by (den * 10^den_exp), den > 0:
\* the quotient to 28 significant digits, the last one rounded half to even
DecimalDivide(num, num_exp, den, den_exp) ==
    IF num = 0
    THEN [digits |-> Zeros(DecimalPrec), exp |-> num_exp - den_exp]
    ELSE LET s == Scale(num, den, 0)
             q == LongDivision(s.num, s.den, DecimalPrec)
             up == \/ 2 * q.rem > s.den
                   \/ 2 * q.rem = s.den /\ q.digits[DecimalPrec] % 2 = 1
             exp == s.shift - DecimalPrec + num_exp - den_exp
         IN  IF up THEN Fit(Increment(q.digits), exp)
                   ELSE [digits |-> q.digits, exp |-> exp]

\* the digits of digits * m + carry
RECURSIVE MulDigits(_, _, _)
MulDigits(digits, m, carry) == IF digits = <<>> THEN DigitsOf(carry) ELSE Append(MulDigits(SubSeq(digits, 1, Len(digits) - 1), m, (digits[Len(digits)] * m + carry) \div 10), (digits[Len(digits)] * m + carry) % 10)

\* a coefficient longer than 28 digits rounded half to even to 28 digits
DecimalRound(digits, exp) ==
    LET k == Len(digits) - DecimalPrec
        kept == SubSeq(digits, 1, DecimalPrec)
        dropped == ValueOf(SubSeq(digits, DecimalPrec + 1, Len(digits)))
        up == \/ 2 * dropped > Pow10(k)
              \/ 2 * dropped = Pow10(k) /\ kept[DecimalPrec] % 2 = 1
    IN  IF k <= 0 THEN [digits |-> digits, exp |-> exp]
        ELSE IF up THEN Fit(Increment(kept), exp + k)
        ELSE [digits |-> kept, exp |-> exp + k]

\* Decimal * Decimal of d by (m * 10^m_exp), m > 0
DecimalMultiply(d, m, m_exp) ==
    DecimalRound(MulDigits(d.digits, m, 0), d.exp + m_exp)

\* amount_eur / self.SEK_TO_EUR: an amount in cents divided by a rate in
\* thousandths
toSecondary(amount, rate) == DecimalDivide(amount, 0 - 2, rate, 0 - 3)

\* toPrimary(amount, rate): multiplication by the same rate
toPrimary(d, rate) == DecimalMultiply(d, rate, 0 - 3)

\* the rates converted with: the generators' rate and two others
RoundTripRates == {3, SEK_TO_EUR, 93}

\* the amounts converted, in cents
RoundTripAmounts == (0..MaxCents) \cup {952}

InitConvert ==
    /\ built = <<>>
    /\ payroll_records = <<>>
    /\ employees = {}
    /\ all_records = <<>>
    /\ calls = 0
    /\ pc = "idle"
    /\ loop_month = 1
    /\ period_idx = 1
    /\ emp_idx = 1
    /\ ytd_accumulators = <<>>
    /\ payroll_input = <<>>
    /\ sheet = <<>>
    /\ annual = <<>>
    /\ classify_input = <<>>
    /\ classified = <<>>
    /\ files = <<>>
    /\ generated = NotGenerated
    /\ tax_form_submissions = <<>>
    /\ annual_summaries = <<>>

\* an aggregation converts an amount to the secondary currency
ConvertToSecondary(amount, rate) ==
    /\ built = <<>>
    /\ built' = << [call |-> "toSecondary", amount |-> amount, rate |-> rate,
                    value |-> toSecondary(amount, rate)] >>
    /\ UNCHANGED << dbVars, appVars, populateVars, monthlyVars, annualVars,
                   classifyVars, fileVars >>

\* the converted amount is converted back with the same rate
ConvertToPrimary ==
    /\ Len(built) = 1
    /\ built[1].call = "toSecondary"
    /\ built' = Append(built,
                       [call |-> "toPrimary", amount |-> built[1].amount,
                        rate |-> built[1].rate,
                        value |-> toPrimary(built[1].value, built[1].rate)])
    /\ UNCHANGED << dbVars, appVars, populateVars, monthlyVars, annualVars,
                   classifyVars, fileVars >>

NextConvert ==
    \/ \E amount \in RoundTripAmounts, rate \in RoundTripRates :
          ConvertToSecondary(amount, rate)
    \/ ConvertToPrimary

SpecConvert == InitConvert /\ [][NextConvert]_vars

\* ------------------- PersonalTaxCalculator.generate_personal_annual_summary
\* most records saved before and between the summaries
MaxSaved == 2

\* the order of two dates
DateKey(d) == (d.year * 12 + d.month) * 31 + d.day

\* sorted(records, key=lambda r: r.pay_period_start): stable
RECURSIVE SortedByStart(_)
SortedByStart(records) ==
    IF records = <<>> THEN <<>>
    ELSE LET n == Len(records)
             last == records[n]
             before == SortedByStart(SubSeq(records, 1, n - 1))
             pos == Cardinality({ i \in 1..Len(before) :
                        DateKey(before[i].pay_period_start)
                            <= DateKey(last.pay_period_start) })
         IN  SubSeq(before, 1, pos) \o << last >> \o SubSeq(before, pos + 1, Len(before))

\* the cells of one data row
PersonalRow(record) ==
    [period |-> record.pay_period_start,
     calc_num |-> 93800 + record.month * 100,
     taxable_income_sek |-> ToSek(record.gross_salary),
     taxable_income_eur |-> record.gross_salary,
     swedish_tax_eur |-> record.swedish_tax,
     allowances_sek |-> ToSek(record.tax_free_portion),
     allowances_eur |-> record.tax_free_portion,
     tax_allowances_eur |-> DecMul(record.tax_free_portion, 3, 10)]

\* the TOTAL row over the data rows
PersonalTotals(rows) ==
    [taxable_income_sek |-> SumSeq([i \in 1..Len(rows) |-> rows[i].taxable_income_sek]),
     taxable_income_eur |-> SumSeq([i \in 1..Len(rows) |-> rows[i].taxable_income_eur]),
     tax_eur |-> SumSeq([i \in 1..Len(rows) |-> rows[i].swedish_tax_eur]),
     allowances_sek |-> SumSeq([i \in 1..Len(rows) |-> rows[i].allowances_sek]),
     allowances_eur |-> SumSeq([i \in 1..Len(rows) |-> rows[i].allowances_eur]),
     tax_allowances_eur |-> SumSeq([i \in 1..Len(rows) |-> rows[i].tax_allowances_eur])]

\* the workbook built from the records of the employee and year
PersonalWorkbook(records) ==
    LET sorted == SortedByStart(records)
        rows == [i \in 1..Len(sorted) |-> PersonalRow(sorted[i])]
    IN  [rows |-> rows, totals |-> PersonalTotals(rows)]

\* self.output_dir / f"{employee_id}_{year}_personal_tax_calculations.xlsx"
PersonalPath(employee_id, year) ==
    [dir |-> "personal_tax", employee_id |-> employee_id, year |-> year,
     suffix |-> "_personal_tax_calculations.xlsx"]

\* if not os.path.exists(filepath): wb.save(filepath)
SaveIfAbsent(fs, filepath, wb) ==
    IF filepath \in DOMAIN fs THEN fs ELSE (filepath :> wb) @@ fs

\* generate_personal_annual_summary: the directory as the call leaves it and
\* what the call returned or raised
generate_personal_annual_summary(table, saved, fs, employee_id, year) ==
    LET records == get_payroll_records(table, employee_id, year)
        wb == PersonalWorkbook(records)
        filepath == PersonalPath(employee_id, year)
    IN  IF records = <<>>
        THEN [files |-> fs,
              call |-> [error |-> "ValueError", returned |-> FALSE,
                        path |-> <<>>, workbook |-> <<>>]]
        ELSE IF employee_id \notin saved
        THEN [files |-> fs,
              call |-> [error |-> "AttributeError", returned |-> FALSE,
                        path |-> <<>>, workbook |-> <<>>]]
        ELSE [files |-> SaveIfAbsent(fs, filepath, wb),
              call |-> [error |-> "", returned |-> TRUE,
                        path |-> filepath, workbook |-> wb]]

\* the employees summaries are asked for: two of the roster and a stranger
SummaryEmployeeIds ==
    { MOCK_EMPLOYEES[i].employee_id : i \in 1..2 } \cup { "99999999-000X" }

\* the database after init_db and the roster has been saved, no file written
InitSummary ==
    /\ built = <<>>
    /\ payroll_records = <<>>
    /\ employees = EmployeeIds(MOCK_EMPLOYEES)
    /\ all_records = <<>>
    /\ calls = 0
    /\ pc = "idle"
    /\ loop_month = 1
    /\ period_idx = 1
    /\ emp_idx = 1
    /\ ytd_accumulators = <<>>
    /\ payroll_input = <<>>
    /\ sheet = <<>>
    /\ annual = <<>>
    /\ classify_input = <<>>
    /\ classified = <<>>
    /\ files = <<>>
    /\ generated = NotGenerated
    /\ tax_form_submissions = <<>>
    /\ annual_summaries = <<>>

\* repo.save_payroll_record(record) of a record built for a roster employee
SavePayrollRecord(i, year, month, w) ==
    /\ Len(payroll_records) < MaxSaved
    /\ payroll_records' =
           save_payroll_record(payroll_records,
               generate_payroll_record(MOCK_EMPLOYEES[i], year, month, w))
    /\ UNCHANGED << built, employees, tax_form_submissions, annual_summaries,
                   appVars, populateVars, monthlyVars, annualVars, classifyVars, fileVars >>

\* calculator.generate_personal_annual_summary(employee_id, year)
GeneratePersonalAnnualSummary(employee_id, year) ==
    /\ LET out == generate_personal_annual_summary(payroll_records, employees,
                                                   files, employee_id, year)
       IN  /\ files' = out.files
           /\ generated' = out.call
    /\ UNCHANGED << built, dbVars, appVars, populateVars, monthlyVars,
                   annualVars, classifyVars >>

NextSummary ==
    \/ \E i \in 1..2, year \in AppYears, month \in 1..2, w \in AppWorkInputs :
          SavePayrollRecord(i, year, month, w)
    \/ \E employee_id \in SummaryEmployeeIds, year \in AnnualYears :
          GeneratePersonalAnnualSummary(employee_id, year)

SpecSummary == InitSummary /\ [][NextSummary]_vars

\* ------------------------------------ SKV 4786: the form and its submission
\* Strings are sequences of their characters.
DigitChars == << "0", "1", "2", "3", "4", "5", "6", "7", "8", "9" >>

\* int(c) of a digit character
DigitValue(c) == (CHOOSE k \in 1..10 : DigitChars[k] = c) - 1

\* str(n), n >= 0
RECURSIVE Str(_)
Str(n) == IF n < 10 THEN << DigitChars[n + 1] >> ELSE Append(Str(n \div 10), DigitChars[(n % 10) + 1])

\* f"{n:0{width}d}": zeros in front up to the width, never cut
Padded(n, width) ==
    [i \in 1..(width - Len(Str(n))) |-> "0"] \o Str(n)

\* int(chars) of a digit string
RECURSIVE ParseInt(_)
ParseInt(chars) == IF chars = <<>> THEN 0 ELSE 10 * ParseInt(SubSeq(chars, 1, Len(chars) - 1)) + DigitValue(chars[Len(chars)])

\* chars.split(sep)
RECURSIVE Split(_, _)
Split(chars, sep) ==
    IF \A i \in 1..Len(chars) : chars[i] # sep THEN << chars >>
    ELSE LET i == CHOOSE k \in 1..Len(chars) :
                      chars[k] = sep /\ \A j \in 1..(k - 1) : chars[j] # sep
         IN  << SubSeq(chars, 1, i - 1) >>
             \o Split(SubSeq(chars, i + 1, Len(chars)), sep)

\* filename = f"SKV4786_Combined_{year}_{month:02d}.xml"
CombinedFilename(year, month) ==
    << "S", "K", "V", "4", "7", "8", "6", "_",
       "C", "o", "m", "b", "i", "n", "e", "d", "_" >>
    \o Str(year) \o << "_" >> \o Padded(month, 2) \o << ".", "x", "m", "l" >>

\* filename.replace('.xml', ''), the name ending in .xml
WithoutXml(filename) == SubSeq(filename, 1, Len(filename) - 4)

\* _get_due_date
get_due_date(year, month) ==
    IF month = 12
    THEN Str(year + 1) \o << "-", "0", "1", "-", "1", "2" >>
    ELSE Str(year) \o << "-" >> \o Padded(month + 1, 2) \o << "-", "1", "2" >>

\* digits_of(d * 2) summed
SumOfDigits(n) == (n \div 10) + (n % 10)

\* luhn_checksum of _generate_ocr_number: the digits at odd places counted
\* from the right are added as they are, those at even places doubled
luhn_checksum(chars) ==
    LET n == Len(chars)
        digit(k) == DigitValue(chars[n + 1 - k])
    IN  SumSeq([k \in 1..n |-> IF k % 2 = 1 THEN digit(k)
                               ELSE SumOfDigits(digit(k) * 2)]) % 10

\* _generate_ocr_number
generate_ocr_number(year, month) ==
    LET base == Str(year) \o Padded(month, 2) \o << "5", "5", "6", "7", "8", "9" >>
    IN  base \o Str(luhn_checksum(base))

\* f'{year}-{month+1:02d}-12' of submit_skv4786
SubmitDueDate(year, month) ==
    Str(year) \o << "-" >> \o Padded(month + 1, 2) \o << "-", "1", "2" >>

\* f'{year}{month:02d}556789{submission.id}' of submit_skv4786
SubmitOcr(year, month, id) ==
    Str(year) \o Padded(month, 2) \o << "5", "5", "6", "7", "8", "9" >> \o Str(id)

\* f'SKV4786-{year}{month:02d}-{submission.id:06d}'
SubmitReference(year, month, id) ==
    << "S", "K", "V", "4", "7", "8", "6", "-" >> \o Str(year)
    \o Padded(month, 2) \o << "-" >> \o Padded(id, 6)

\* submit_skv4786 for a file name: the submissions table as the handler leaves
\* it and the JSON it answers with
submit_skv4786(table, filename) ==
    LET parts == Split(WithoutXml(filename), "_")
        year == ParseInt(parts[3])
        month == ParseInt(parts[4])
        id == Len(table) + 1
        response_data ==
            [status |-> "accepted",
             payment_due_date |-> SubmitDueDate(year, month),
             ocr_reference |-> SubmitOcr(year, month, id)]
    IN  [table |-> Append(table,
                      [id |-> id, form_type |-> "SKV4786", year |-> year,
                       month |-> month, form_file_path |-> filename,
                       status |-> "submitted",
                       reference_number |-> SubmitReference(year, month, id),
                       response_json |-> response_data]),
         response |-> [success |-> TRUE,
                       reference |-> SubmitReference(year, month, id),
                       payment_info |-> [due_date |-> SubmitDueDate(year, month),
                                         ocr |-> SubmitOcr(year, month, id)]]]

\* the years forms are generated and submitted for
SkvYears == 2024..2030

InitSkv ==
    /\ built = <<>>
    /\ payroll_records = <<>>
    /\ employees = {}
    /\ all_records = <<>>
    /\ calls = 0
    /\ pc = "idle"
    /\ loop_month = 1
    /\ period_idx = 1
    /\ emp_idx = 1
    /\ ytd_accumulators = <<>>
    /\ payroll_input = <<>>
    /\ sheet = <<>>
    /\ annual = <<>>
    /\ classify_input = <<>>
    /\ classified = <<>>
    /\ files = <<>>
    /\ generated = NotGenerated
    /\ tax_form_submissions = <<>>
    /\ annual_summaries = <<>>

\* self._get_due_date(year, month), the text of Forfallodatum
GetDueDate(year, month) ==
    /\ built = <<>>
    /\ built' = << [call |-> "_get_due_date", year |-> year, month |-> month,
                    returned |-> get_due_date(year, month)] >>
    /\ UNCHANGED << dbVars, appVars, populateVars, monthlyVars, annualVars,
                   classifyVars, fileVars >>

\* self._generate_ocr_number(year, month), the text of OCRNummer
GenerateOcrNumber(year, month) ==
    /\ built = <<>>
    /\ built' = << [call |-> "_generate_ocr_number", year |-> year,
                    month |-> month,
                    returned |-> generate_ocr_number(year, month)] >>
    /\ UNCHANGED << dbVars, appVars, populateVars, monthlyVars, annualVars,
                   classifyVars, fileVars >>

\* POST /api/submit/skv4786 with the file generated for the year and month
SubmitSkv4786(year, month) ==
    /\ built = <<>>
    /\ LET out == submit_skv4786(tax_form_submissions,
                                 CombinedFilename(year, month))
       IN  /\ tax_form_submissions' = out.table
           /\ built' = << [call |-> "submit_skv4786", year |-> year,
                           month |-> month, returned |-> out.response] >>
    /\ UNCHANGED << payroll_records, employees, annual_summaries, appVars,
                   populateVars, monthlyVars, annualVars, classifyVars, fileVars >>

NextSkv ==
    \/ \E year \in SkvYears, month \in 1..12 : GetDueDate(year, month)
    \/ \E year \in SkvYears, month \in 1..12 : GenerateOcrNumber(year, month)
    \/ \E year \in SkvYears, month \in 1..12 : SubmitSkv4786(year, month)

SpecSkv == InitSkv /\ [][NextSkv]_vars

\* ------------------------------- PayrollRepository.create_annual_summary
\* most annual summaries created
MaxSummaries == 1

\* the literal of create_annual_summary's second description test: the
\* word ylityo with its o-umlaut stored as the two characters A-tilde, pilcrow
YlityoAsStored == "ylity(A-tilde)(pilcrow)"

\* the hours an item adds in create_annual_summary
SummaryItemHours(item) ==
    IF StartsWith(item.code, "12101") /\ ~IsSubstring(<< "_" >>, Chars(item.code))
    THEN [regular |-> item.quantity, overtime |-> 0]
    ELSE IF \/ ContainsLower(item.description, "overtime")
            \/ ContainsLower(item.description, YlityoAsStored)
    THEN [regular |-> 0, overtime |-> item.quantity]
    ELSE [regular |-> 0, overtime |-> 0]

\* the items of all records, record after record
RECURSIVE AllItems(_)
AllItems(records) ==
    IF records = <<>> THEN <<>>
    ELSE Head(records).salary_items \o AllItems(Tail(records))

\* create_annual_summary(employee_id, year): the row added, none (the method
\* returns None) without records
create_annual_summary(table, employee_id, year) ==
    LET records == get_payroll_records(table, employee_id, year)
        items == AllItems(records)
        Total(Field(_)) == SumSeq([i \in 1..Len(records) |-> Field(records[i])])
        gross(r) == r.gross_salary
        net(r) == r.net_payment
        swedish(r) == r.swedish_tax
        finnish(r) == r.finnish_tax_withholding
        pension(r) == r.pension_insurance
        tax_free(r) == r.tax_free_portion
    IN  IF records = <<>> THEN <<>>
        ELSE << [employee_id |-> employee_id,
                 year |-> year,
                 total_gross_salary |-> Numeric2(Total(gross)),
                 total_net_payment |-> Numeric2(Total(net)),
                 total_swedish_tax |-> Numeric2(Total(swedish)),
                 total_finnish_tax |-> Numeric2(Total(finnish)),
                 total_pension_insurance |-> Numeric2(Total(pension)),
                 total_tax_free_portion |-> Numeric2(Total(tax_free)),
                 total_regular_hours |->
                     SumSeq([i \in 1..Len(items) |-> SummaryItemHours(items[i]).regular]),
                 total_overtime_hours |->
                     SumSeq([i \in 1..Len(items) |-> SummaryItemHours(items[i]).overtime])] >>

\* repo.create_annual_summary(employee_id, year)
CreateAnnualSummary(employee_id, year) ==
    /\ Len(annual_summaries) < MaxSummaries
    /\ annual_summaries' =
           annual_summaries \o create_annual_summary(payroll_records,
                                                     employee_id, year)
    /\ UNCHANGED << built, payroll_records, employees, tax_form_submissions,
                   appVars, populateVars, monthlyVars, annualVars,
                   classifyVars, fileVars >>

\* the employees a summary is created for
SummaryIds == { MOCK_EMPLOYEES[1].employee_id, MOCK_EMPLOYEES[2].employee_id,
                PopulateEmployees[1].employee_id, PopulateEmployees[2].employee_id }

NextTotals ==
    \/ \E year \in AnnualYears : GenerateAnnualSummary(year)
    \/ \E employee_id \in SummaryIds, year \in AnnualYears :
          CreateAnnualSummary(employee_id, year)

SpecTotals == InitAnnual /\ [][NextTotals]_vars

\* ------------------------------------------------ the builders, called alone
BuildYears == {2024, 2025}
Months == 1..12
\* the months whose periods create_realistic_payroll_record is called with
RealisticMonths == {1, 2}

\* the periods create_realistic_payroll_record is called with: the two of
\* get_pay_periods_for_month, and a one-week period
BuildPeriods(year, month) ==
    { get_pay_periods_for_month(year, month)[i] : i \in 1..2 }
    \cup { << Date(year, month, 1), Date(year, month, 7), Date(year, month, 20) >> }

\* accumulator dicts handed to create_realistic_payroll_record
BuildYtd == { ZeroYtd, [gross |-> 38000 * EUR, tax_free |-> 680 * EUR] }

InitBuild ==
    /\ built = <<>>
    /\ payroll_records = <<>>
    /\ employees = {}
    /\ all_records = <<>>
    /\ calls = 0
    /\ pc = "idle"
    /\ loop_month = 1
    /\ period_idx = 1
    /\ emp_idx = 1
    /\ ytd_accumulators = <<>>
    /\ payroll_input = <<>>
    /\ sheet = <<>>
    /\ annual = <<>>
    /\ classify_input = <<>>
    /\ classified = <<>>
    /\ files = <<>>
    /\ generated = NotGenerated
    /\ tax_form_submissions = <<>>
    /\ annual_summaries = <<>>

\* MockLikeitAPI.get_employee_payroll for a roster employee
BuildMock(i, year, month, w) ==
    /\ built' = << [builder |-> "mock", month |-> month, ytd_before |-> ZeroYtd,
                    record |-> generate_payroll_record(MOCK_EMPLOYEES[i],
                                                       year, month, w)] >>
    /\ UNCHANGED << dbVars, appVars, populateVars, monthlyVars, annualVars, classifyVars, fileVars >>

\* create_realistic_payroll_record with an accumulator dict ytd
BuildRealistic(i, month, period, ytd, w) ==
    /\ built' = << [builder |-> "realistic", month |-> month, ytd_before |-> ytd,
                    record |-> create_realistic_payroll_record(
                                   PopulateEmployees[i], period[1], period[2],
                                   period[3], ytd, w).record] >>
    /\ UNCHANGED << dbVars, appVars, populateVars, monthlyVars, annualVars, classifyVars, fileVars >>

NextBuild ==
    \/ \E i \in 1..Len(MOCK_EMPLOYEES), year \in BuildYears, month \in Months,
          w \in MockWorkInputs : BuildMock(i, year, month, w)
    \/ \E i \in 1..Len(PopulateEmployees), year \in BuildYears,
          month \in RealisticMonths,
          ytd \in BuildYtd, w \in RealisticWorkInputs :
          \E period \in BuildPeriods(year, month) :
              BuildRealistic(i, month, period, ytd, w)

SpecBuild == InitBuild /\ [][NextBuild]_vars

\* --------------------------------------------- the accumulator, call by call
\* the employees and the periods of the calls
YtdEmployees == 1..2
YtdPeriods ==
    UNION { { get_pay_periods_for_month(PopulateYear, month)[i] : i \in 1..2 } :
            month \in RealisticMonths }

InitYtd ==
    /\ ytd_accumulators =
          [id \in { PopulateEmployees[i].employee_id : i \in YtdEmployees }
              |-> ZeroYtd]
    /\ built = <<>>
    /\ payroll_records = <<>>
    /\ employees = {}
    /\ all_records = <<>>
    /\ calls = 0
    /\ pc = "idle"
    /\ loop_month = 1
    /\ period_idx = 1
    /\ emp_idx = 1
    /\ payroll_input = <<>>
    /\ sheet = <<>>
    /\ annual = <<>>
    /\ classify_input = <<>>
    /\ classified = <<>>
    /\ files = <<>>
    /\ generated = NotGenerated
    /\ tax_form_submissions = <<>>
    /\ annual_summaries = <<>>

\* create_realistic_payroll_record(employee, period_start, period_end,
\* payment_date, ytd_accumulators[employee_id]): the call returns a record,
\* raises nothing, and has added to the employee's accumulator
UpdateYtdCall(i, period, w) ==
    /\ Len(built) < MaxUpdates
    /\ LET employee == PopulateEmployees[i]
           ytd == ytd_accumulators[employee.employee_id]
           made == create_realistic_payroll_record(employee, period[1], period[2],
                                                   period[3], ytd, w)
       IN  /\ ytd_accumulators' =
                 [ytd_accumulators EXCEPT ![employee.employee_id] = made.ytd_accumulator]
           /\ built' = Append(built,
                 [builder |-> "realistic", month |-> period[1].month,
                  ytd_before |-> ytd, ytd_after |-> made.ytd_accumulator,
                  error |-> "", record |-> made.record])
    /\ UNCHANGED << dbVars, appVars, pc, loop_month, period_idx, emp_idx,
                   monthlyVars, annualVars, classifyVars, fileVars >>

NextYtd ==
    \E i \in YtdEmployees, period \in YtdPeriods, w \in RealisticWorkInputs :
        UpdateYtdCall(i, period, w)

SpecYtd == InitYtd /\ [][NextYtd]_vars

\* ------------------------------------------------ MockLikeitAPI, called alone
\* one call of a fresh MockLikeitAPI() per behaviour: the API keeps no state
\* between calls
\* MockLikeitAPI.get_monthly_payroll, f[i] being the draws for the i-th
\* roster employee
get_monthly_payroll(year, month, f) ==
    [i \in 1..Len(MOCK_EMPLOYEES) |->
        generate_payroll_record(MOCK_EMPLOYEES[i], year, month, f[i])]

\* the identifiers, years and months the API is called with
ApiEmployeeIds ==
    EmployeeIds(MOCK_EMPLOYEES) \cup { "", "EMP999", PopulateEmployees[1].employee_id }
ApiYears == {2024, 2025, 2100}

InitApi ==
    /\ built = <<>>
    /\ payroll_records = <<>>
    /\ employees = {}
    /\ all_records = <<>>
    /\ calls = 0
    /\ pc = "idle"
    /\ loop_month = 1
    /\ period_idx = 1
    /\ emp_idx = 1
    /\ ytd_accumulators = <<>>
    /\ payroll_input = <<>>
    /\ sheet = <<>>
    /\ annual = <<>>
    /\ classify_input = <<>>
    /\ classified = <<>>
    /\ files = <<>>
    /\ generated = NotGenerated
    /\ tax_form_submissions = <<>>
    /\ annual_summaries = <<>>

\* api.get_employee_payroll(employee_id, year, month): a record or ValueError
GetEmployeePayroll(employee_id, year, month, w) ==
    /\ built = <<>>
    /\ built' = << [call |-> "get_employee_payroll", employee_id |-> employee_id,
                    year |-> year, month |-> month,
                    error |-> get_employee_payroll(employee_id, year, month, w).error,
                    returned |-> get_employee_payroll(employee_id, year, month,
                                                      w).record] >>
    /\ UNCHANGED << dbVars, appVars, populateVars, monthlyVars, annualVars,
                   classifyVars, fileVars >>

\* api.get_monthly_payroll(year, month)
GetMonthlyPayroll(year, month, f) ==
    /\ built = <<>>
    /\ built' = << [call |-> "get_monthly_payroll", employee_id |-> "",
                    year |-> year, month |-> month, error |-> "",
                    returned |-> get_monthly_payroll(year, month, f)] >>
    /\ UNCHANGED << dbVars, appVars, populateVars, monthlyVars, annualVars,
                   classifyVars, fileVars >>

NextApi ==
    \/ \E employee_id \in ApiEmployeeIds, year \in ApiYears, month \in Months,
          w \in MockWorkInputs :
          GetEmployeePayroll(employee_id, year, month, w)
    \/ \E year \in ApiYears, month \in Months,
          f \in [1..Len(MOCK_EMPLOYEES) -> MockWorkInputs] :
          GetMonthlyPayroll(year, month, f)

SpecApi == InitApi /\ [][NextApi]_vars

\* ================================================================ properties
\* the records the builders have returned
BuiltRecords == { built[i] : i \in 1..Len(built) }

\* the deductions downstream code takes for Swedish tax:
\* 'Swedish' in d.description or 'Ruotsin' in d.description
IsSwedish(d) == Contains(d.description, "Swedish") \/ Contains(d.description, "Ruotsin")

SwedishDeductionsOf(r) == SelectSeq(r.deductions, IsSwedish)

ThresholdOf(b) == IF b.builder = "mock" THEN MockSwedishTaxThreshold
                  ELSE RealisticSwedishTaxThreshold

\* No product of the builders loses digits on the inputs enumerated: the
\* fixed-point amounts are the Decimal amounts of the source.
ExactInputs ==
    \A b \in BuiltRecords :
        LET r == b.record
            taxable == r.gross_salary - ThresholdOf(b)
        IN  /\ DecMulExact(r.gross_salary, PensionRate, PerCent)
            /\ DecMulExact(r.gross_salary, base_tax_rate, PerCent)
            /\ DecMulExact(r.gross_salary, additional_tax_rate, PerCent)
            /\ DecMulExact(DecMul(r.gross_salary, base_tax_rate, PerCent), 3, 10)
            /\ taxable > 0 => DecMulExact(taxable, SwedishTaxRate, PerCent)
            /\ \A i \in 1..Len(r.salary_items) :
                   DecMulExact(r.salary_items[i].rate,
                               r.salary_items[i].quantity, Hour)

\* C1: every built record has
\* net_payment = gross_salary + sum of deduction amounts + pension_insurance
\*               + tax_withholding.
C1_NetPaymentReconciles ==
    \A b \in BuiltRecords :
        LET r == b.record
        IN  r.net_payment = r.gross_salary + SumAmounts(r.deductions)
                            + r.pension_insurance + r.tax_withholding

\* C4: a record whose gross_salary exceeds the builder's Swedish threshold
\* carries exactly two Swedish deductions, both negative: first
\* -((gross_salary - threshold) * 0.30), then the fixed -217.78.
C4_TwoSwedishDeductionsAboveThreshold ==
    \A b \in BuiltRecords :
        LET r == b.record
            sw == SwedishDeductionsOf(r)
        IN  r.gross_salary > ThresholdOf(b) =>
                /\ Len(sw) = 2
                /\ sw[1].amount < 0 /\ sw[2].amount < 0
                /\ sw[1].amount * 10 = -((r.gross_salary - ThresholdOf(b)) * 3)
                /\ sw[2].amount = -StandardDeduction

C4_Witness ==
    \E b \in BuiltRecords :
        /\ b.builder = "realistic"
        /\ b.record.gross_salary > RealisticSwedishTaxThreshold
        /\ Len(SwedishDeductionsOf(b.record)) = 2

\* C5: a record whose gross_salary is at most the builder's Swedish threshold
\* carries no Swedish deduction.
C5_NoSwedishDeductionAtOrBelowThreshold ==
    \A b \in BuiltRecords :
        b.record.gross_salary <= ThresholdOf(b) =>
            SwedishDeductionsOf(b.record) = <<>>

C5_Witness ==
    /\ \E b \in BuiltRecords :
           /\ b.builder = "realistic"
           /\ b.record.gross_salary <= RealisticSwedishTaxThreshold
           /\ b.record.deductions = <<>>
    \/ \E b \in BuiltRecords :
           /\ b.builder = "mock"
           /\ b.record.gross_salary <= MockSwedishTaxThreshold
           /\ Len(b.record.deductions) = 1

\* the withholding at a rate given in hundredths of a percent
Withheld(gross_salary, rate) == -DecMul(gross_salary, rate, PerCent)

RECURSIVE GrossUpTo(_, _, _, _)
GrossUpTo(table, k, employee_id, year) ==
    IF k = 0 THEN 0
    ELSE (IF table[k].employee_id = employee_id /\ table[k].year = year
          THEN table[k].gross_salary ELSE 0)
         + GrossUpTo(table, k - 1, employee_id, year)

RECURSIVE TaxFreeUpTo(_, _, _, _)
TaxFreeUpTo(table, k, employee_id, year) ==
    IF k = 0 THEN 0
    ELSE (IF table[k].employee_id = employee_id /\ table[k].year = year
          THEN table[k].tax_free_portion ELSE 0)
         + TaxFreeUpTo(table, k - 1, employee_id, year)

\* C2: the records of the population loop are saved in chronological order;
\* each carries as year_to_date_gross the sum of gross_salary over its
\* employee's records of the year up to and including itself, and as
\* year_to_date_tax_free the like sum of tax_free_portion.
C2_YtdIsRunningSum ==
    \A k \in 1..Len(payroll_records) :
        LET row == payroll_records[k]
        IN  /\ row.ytd_gross
                 = GrossUpTo(payroll_records, k, row.employee_id, row.year)
            /\ row.ytd_tax_free
                 = TaxFreeUpTo(payroll_records, k, row.employee_id, row.year)

\* C3: of two records of one employee and year, the later one never has the
\* smaller year_to_date_gross.
C3_YtdGrossNeverDecreases ==
    \A j, k \in 1..Len(payroll_records) :
        ( /\ j < k
          /\ payroll_records[j].employee_id = payroll_records[k].employee_id
          /\ payroll_records[j].year = payroll_records[k].year )
        => payroll_records[j].ytd_gross <= payroll_records[k].ytd_gross

\* C10: the payroll table never holds two records with the same
\* (employee, year, month), so get_payroll_record's query matches at most one.
C10_OneRecordPerEmployeeMonth ==
    \A i \in 1..Len(MOCK_EMPLOYEES), year \in AppYears, month \in AppMonths :
        Len(MatchingRecords(payroll_records, MOCK_EMPLOYEES[i].employee_id,
                            year, month)) <= 1

\* ------------------------------------------------ the monthly worksheet
InSeq(x, s) == \E i \in 1..Len(s) : s[i] = x

CountOf(s, employee_id) == Len(RecordsOf(s, employee_id))

\* the values written on the row of employee_id in one half of the sheet
FirstRowOf(s, employee_id) ==
    s.rows[CHOOSE i \in 1..Len(s.rows) :
              /\ s.rows[i].first # <<>>
              /\ s.rows[i].first[1].employee_id = employee_id].first[1]

SecondRowOf(s, employee_id) ==
    s.rows[CHOOSE i \in 1..Len(s.rows) :
              /\ s.rows[i].second # <<>>
              /\ s.rows[i].second[1].employee_id = employee_id].second[1]

CombinedOf(s, employee_id) ==
    s.combined[CHOOSE k \in 1..Len(s.combined) :
                  s.combined[k].employee_id = employee_id].totals

InputEmployeeIds == { payroll_input.records[i].employee_id :
                        i \in 1..Len(payroll_input.records) }

OneInEachHalf(s, employee_id) ==
    /\ CountOf(s.first_half, employee_id) = 1
    /\ CountOf(s.second_half, employee_id) = 1

\* C7: for every employee with one record in each half of the month, the
\* combined (YHTEENSA) totals ansiot_sek, paivarahat_sek, ansiot_sek_yht and
\* vero_eur are the sums of the values of that employee's first-half row and
\* second-half row.
C7_CombinedIsSumOfHalves ==
    sheet # <<>> =>
        LET s == sheet[1]
        IN  \A e \in InputEmployeeIds :
                OneInEachHalf(s, e) =>
                    LET a == FirstRowOf(s, e)
                        b == SecondRowOf(s, e)
                        c == CombinedOf(s, e)
                    IN  /\ c.ansiot_sek = a.ansiot_sek + b.ansiot_sek
                        /\ c.paivarahat_sek = a.paivarahat_sek + b.paivarahat_sek
                        /\ c.ansiot_sek_yht = a.ansiot_sek_yht + b.ansiot_sek_yht
                        /\ c.vero_eur = a.vero_eur + b.vero_eur

\* C7 happens: a sheet where an employee has one record in each half, per
\* diems and Swedish tax in both, and sits on different rows in the two halves.
C7_Witness ==
    /\ sheet # <<>>
    /\ \E e \in InputEmployeeIds :
          /\ OneInEachHalf(sheet[1], e)
          /\ FirstRowOf(sheet[1], e).paivarahat_sek > 0
          /\ SecondRowOf(sheet[1], e).paivarahat_sek > 0
          /\ FirstRowOf(sheet[1], e).vero_eur > 0
          /\ SecondRowOf(sheet[1], e).vero_eur > 0
          /\ \E i, j \in 1..Len(sheet[1].rows) :
                /\ i # j
                /\ sheet[1].rows[i].first # <<>>
                /\ sheet[1].rows[i].first[1].employee_id = e
                /\ sheet[1].rows[j].second # <<>>
                /\ sheet[1].rows[j].second[1].employee_id = e

TotalsKeys ==
    { "km_korvauksia", "ansiot_sek", "paivarahat_sek", "ansiot_sek_yht",
      "vero_sek", "vero_eur" }

\* C8: every grand total is the sum of the combined totals of the employees,
\* and the employees with combined totals are those of the input records, each
\* once.
C8_GrandTotalIsSumOfCombined ==
    sheet # <<>> =>
        LET s == sheet[1]
        IN  /\ \A key \in TotalsKeys :
                  s.grand_totals[key] =
                      SumSeq([k \in 1..Len(s.combined) |-> s.combined[k].totals[key]])
            /\ { s.combined[k].employee_id : k \in 1..Len(s.combined) }
                  = InputEmployeeIds
            /\ \A k, l \in 1..Len(s.combined) :
                  s.combined[k].employee_id = s.combined[l].employee_id => k = l

\* C8 happens: a sheet of several employees whose last has earnings, travel
\* compensation and Swedish tax in the totals.
C8_Witness ==
    /\ sheet # <<>>
    /\ Len(sheet[1].combined) >= 2
    /\ \A key \in TotalsKeys :
          sheet[1].combined[Len(sheet[1].combined)].totals[key] > 0

InExactlyOneHalf(s, record) ==
    InSeq(record, s.first_half) # InSeq(record, s.second_half)

C11_RecordsUnchangedAfterBuild ==
    /\ Len(all_records) = Len(built)
    /\ \A k \in 1..Len(all_records) : all_records[k] = built[k].record

\* ------------------------------------------ Swedish tax seen downstream
\* the Swedish deductions the builder's tax rule produced for the record
RuleDeductions(b) ==
    IF b.builder = "mock" THEN MockSwedishDeductions(b.record.gross_salary)
    ELSE RealisticSwedishDeductions(b.record.gross_salary)

Magnitudes(deductions) ==
    SumSeq([i \in 1..Len(deductions) |-> Abs(deductions[i].amount)])

\* C12: the Swedish tax save_payroll_record stores and the monthly sheet
\* reports for a record is the sum of the magnitudes of exactly the Swedish
\* deductions the tax rule produced for it, 0 when it produced none; ENNPID
\* and any other deduction is left out.
C12_DownstreamSwedishTaxIsRuleTax ==
    \A b \in BuiltRecords :
        /\ SwedishDeductionsOf(b.record) = RuleDeductions(b)
        /\ StoredSwedishTax(b.record) = Magnitudes(RuleDeductions(b))
        /\ SwedishTaxEur(b.record) = Magnitudes(RuleDeductions(b))
        /\ RuleDeductions(b) = <<>> =>
              StoredSwedishTax(b.record) = 0 /\ SwedishTaxEur(b.record) = 0

\* C12 happens: a record with both Swedish deductions, stored as a positive
\* Swedish tax larger than the standard deduction.
C12_Witness ==
    \E b \in BuiltRecords :
        /\ Len(RuleDeductions(b)) = 2
        /\ StoredSwedishTax(b.record) > StandardDeduction

\* ------------------------------------------------------ the annual summary
\* the rows of the year of the summary last written, for an employee
RecordsOfRow(employee_id) ==
    get_payroll_records(payroll_records, employee_id, annual[1].year)

SumOf(records, Field(_)) == SumSeq([i \in 1..Len(records) |-> Field(records[i])])

\* C13: _calculate_annual_totals returns the sums of the records'
\* gross_salary, net_payment, tax_free_portion and stored swedish_tax, and the
\* sums of the magnitudes of their withholding and pension amounts.
C13_AnnualTotalsAreSums ==
    annual # <<>> =>
        \A k \in 1..Len(annual[1].rows) :
            LET t == annual[1].rows[k].annual_data
                records == RecordsOfRow(annual[1].rows[k].employee_id)
            IN  /\ t.total_gross = SumOf(records, LAMBDA r : r.gross_salary)
                /\ t.total_net = SumOf(records, LAMBDA r : r.net_payment)
                /\ t.tax_free = SumOf(records, LAMBDA r : r.tax_free_portion)
                /\ t.swedish_tax = SumOf(records, LAMBDA r : r.swedish_tax)
                /\ t.finnish_tax =
                      SumOf(records, LAMBDA r : Abs(r.finnish_tax_withholding))
                /\ t.pension = SumOf(records, LAMBDA r : Abs(r.pension_insurance))

\* C13 happens: totals over two records of an employee, with Swedish tax,
\* withholding and pension in them.
C13_Witness ==
    /\ annual # <<>>
    /\ \E k \in 1..Len(annual[1].rows) :
          /\ Len(RecordsOfRow(annual[1].rows[k].employee_id)) = 2
          /\ annual[1].rows[k].annual_data.swedish_tax > 0
          /\ annual[1].rows[k].annual_data.finnish_tax > 0
          /\ annual[1].rows[k].annual_data.pension > 0

\* the quantities of the items of the records that _classify_salary_item
\* puts in a class
ClassHours(records, class) ==
    SumSeq([i \in 1..Len(records) |->
              SumSeq([j \in 1..Len(records[i].salary_items) |->
                        IF classify_salary_item(records[i].salary_items[j].code) = class
                        THEN records[i].salary_items[j].quantity ELSE 0])])

\* C14: the annual regular hours are the quantities of the items classified
\* 'salary' and the annual overtime hours those of the items classified
\* 'overtime' by _classify_salary_item.
C14_HoursFollowClassification ==
    annual # <<>> =>
        \A k \in 1..Len(annual[1].rows) :
            LET t == annual[1].rows[k].annual_data
                records == RecordsOfRow(annual[1].rows[k].employee_id)
            IN  /\ t.regular_hours = ClassHours(records, "salary")
                /\ t.overtime_hours = ClassHours(records, "overtime")

\* the employees with at least one record in the year of the summary
EmployeesWithRecords ==
    SelectSeq(get_all_employees(employees),
              LAMBDA id : RecordsOfRow(id) # <<>>)

TotalOver(ids, Field(_)) ==
    SumSeq([i \in 1..Len(ids) |->
              Field(calculate_annual_totals(RecordsOfRow(ids[i])))])

\* C15: the summary has one row for each employee with a record in the year
\* and for no other, and each company total is the sum of the annual totals
\* of those employees.
C15_CompanyTotalsAreSums ==
    annual # <<>> /\ annual[1].error = "" =>
        LET c == annual[1].company_totals
            ids == EmployeesWithRecords
        IN  /\ [k \in 1..Len(annual[1].rows) |-> annual[1].rows[k].employee_id] = ids
            /\ c.gross = TotalOver(ids, LAMBDA t : t.total_gross)
            /\ c.hours = TotalOver(ids, LAMBDA t : t.total_hours)
            /\ c.swedish_tax = TotalOver(ids, LAMBDA t : t.swedish_tax)
            /\ c.finnish_tax = TotalOver(ids, LAMBDA t : t.finnish_tax)
            /\ c.pension = TotalOver(ids, LAMBDA t : t.pension)
            /\ c.tax_free = TotalOver(ids, LAMBDA t : t.tax_free)
            /\ c.net = TotalOver(ids, LAMBDA t : t.total_net)

\* C15 happens: a summary of a year in which some saved employees have
\* records and others have none.
C15_Witness ==
    /\ annual # <<>>
    /\ Len(annual[1].rows) >= 2
    /\ Len(annual[1].rows) < Cardinality(employees)
    /\ annual[1].company_totals.swedish_tax > 0
    /\ annual[1].company_totals.hours > 0

\* ------------------------------------------------------- classification
\* C16: two deductions with the same code are classified alike, whatever
\* their descriptions.
C16_DeductionClassByCodeOnly ==
    (classified # <<>> /\ classify_input.kind = "deductions"
        /\ classify_input.first.code = classify_input.second.code)
    => classified[1] = classified[2]

\* the class the prefix table gives the characters of a code
ClassByPrefix(code) ==
    LET Begins(prefix) == IsPrefix(prefix, Chars(code))
    IN  IF Begins(<< "1", "2", "1", "0", "1" >>) THEN "salary"
        ELSE IF Begins(<< "1", "2", "1", "0", "2" >>) THEN "overtime"
        ELSE IF Begins(<< "1", "2", "1", "0", "7" >>) THEN "supplement"
        ELSE IF Begins(<< "M", "K" >>) \/ Begins(<< "P", "V", "R" >>) THEN "benefit"
        ELSE "other"

\* C17: _classify_salary_item gives every code one of the five classes, the
\* one its prefix decides: 12101 salary, 12102 overtime, 12107 supplement,
\* MK or PVR benefit, anything else other.
C17_SalaryItemClassByPrefix ==
    (classified # <<>> /\ classify_input.kind = "salary_item") =>
        /\ Len(classified) = 1
        /\ classified[1] \in {"salary", "overtime", "supplement", "benefit", "other"}
        /\ classified[1] = ClassByPrefix(classify_input.code)

\* C17 happens: a code longer than its prefix has been classified by it, and
\* a code that only nearly has a prefix has been classified other.
C17_Witness ==
    /\ classified # <<>>
    /\ classify_input.kind = "salary_item"
    /\ \/ classify_input.code = "12102_1" /\ classified = << "overtime" >>
       \/ classify_input.code = "X12101" /\ classified = << "other" >>

\* ------------------------------------------------- accumulator ordering
Earlier(d1, d2) ==
    \/ d1.year < d2.year
    \/ d1.year = d2.year /\ d1.month < d2.month
    \/ d1.year = d2.year /\ d1.month = d2.month /\ d1.day < d2.day

\* whether the k-th call is for a period earlier than one already processed
\* for its employee
OutOfOrder(k) ==
    \E j \in 1..(k - 1) :
        /\ built[j].record.employee_id = built[k].record.employee_id
        /\ Earlier(built[k].record.pay_period_start,
                   built[j].record.pay_period_start)

\* C18: an update for a period earlier than the last processed for the
\* employee is rejected with OutOfOrderUpdateError and leaves the employee's
\* (gross, tax-free) pair as it was.
C18_OutOfOrderUpdateRejected ==
    \A k \in 1..Len(built) :
        OutOfOrder(k) =>
            /\ built[k].error = "OutOfOrderUpdateError"
            /\ built[k].ytd_after = built[k].ytd_before

\* ------------------------------------------------------------ the API
\* the calls of one method made so far
CallsOf(method) == { built[k] : k \in { j \in 1..Len(built) : built[j].call = method } }

\* C19: get_employee_payroll fails with the unknown-employee ValueError and
\* builds nothing for an identifier outside the roster, and for a roster
\* identifier returns a record with that employee's id, name, address and
\* bank details.
C19_UnknownEmployeeRejected ==
    \A c \in CallsOf("get_employee_payroll") :
        IF \E i \in 1..Len(MOCK_EMPLOYEES) :
               MOCK_EMPLOYEES[i].employee_id = c.employee_id
        THEN /\ c.error = ""
             /\ Len(c.returned) = 1
             /\ \E i \in 1..Len(MOCK_EMPLOYEES) :
                   /\ MOCK_EMPLOYEES[i].employee_id = c.employee_id
                   /\ c.returned[1].employee_id = c.employee_id
                   /\ c.returned[1].name = MOCK_EMPLOYEES[i].name
                   /\ c.returned[1].address = MOCK_EMPLOYEES[i].address
                   /\ c.returned[1].bank_details = MOCK_EMPLOYEES[i].bank_details
        ELSE /\ c.error = "ValueError"
             /\ c.returned = <<>>

\* C19 happens: a call with an identifier that is not in the roster has
\* failed.
C19_Witness ==
    \E c \in CallsOf("get_employee_payroll") :
        c.employee_id = "EMP999" /\ c.error = "ValueError"

\* the days of the months of the calendar
CalendarDays(year, month) ==
    IF month = 2
    THEN IF year % 400 = 0 \/ (year % 4 = 0 /\ year % 100 # 0) THEN 29 ELSE 28
    ELSE << 31, 28, 31, 30, 31, 30, 31, 31, 30, 31, 30, 31 >>[month]

\* C20: get_monthly_payroll returns one record per roster employee, in roster
\* order, each from day 1 to the last calendar day of the month asked for.
C20_MonthlyPayrollCoversRosterAndMonth ==
    \A c \in CallsOf("get_monthly_payroll") :
        /\ Len(c.returned) = Len(MOCK_EMPLOYEES)
        /\ \A i \in 1..Len(c.returned) :
              /\ c.returned[i].employee_id = MOCK_EMPLOYEES[i].employee_id
              /\ c.returned[i].pay_period_start = Date(c.year, c.month, 1)
              /\ c.returned[i].pay_period_end =
                    Date(c.year, c.month, CalendarDays(c.year, c.month))
              /\ ~Earlier(c.returned[i].pay_period_end,
                          c.returned[i].pay_period_start)

\* C20 happens: the records of a February of a century year that is no leap
\* year, ending on the 28th.
C20_Witness ==
    \E c \in CallsOf("get_monthly_payroll") :
        /\ c.year = 2100 /\ c.month = 2
        /\ Len(c.returned) = 3
        /\ c.returned[3].pay_period_end.day = 28


\* ---- C21
\* a - b for two digit sequences of one length, cut off beyond +-1000
RECURSIVE DigitDifference(_, _, _)
DigitDifference(a, b, acc) ==
    LET next == acc * 10 + Head(a) - Head(b)
        cut == IF next > 1000 THEN 1000 ELSE IF next < 0 - 1000 THEN 0 - 1000 ELSE next
    IN  IF a = <<>> THEN acc ELSE DigitDifference(Tail(a), Tail(b), cut)

\* how far, in units of its own last digit, the Decimal d is above the amount
\* of that many cents
UnitsApart(d, amount) ==
    LET x == DigitsOf(amount) \o Zeros((0 - 2) - d.exp)
        n == Max(Len(x), Len(d.digits))
    IN  DigitDifference(Zeros(n - Len(d.digits)) \o d.digits,
                        Zeros(n - Len(x)) \o x, 0)

RoundTrips == {k \in 1..Len(built) : built[k].call = "toPrimary"}

\* C21 as stated: an amount converted to the secondary currency and back
\* with the same rate is the amount again
C21_RoundTripIsExact ==
    \A k \in RoundTrips : UnitsApart(built[k].value, built[k].amount) = 0

\* C21 amended: an amount converted to the secondary currency and back with
\* the same rate is the amount again up to rounding, at most 5 units of the
\* 28th significant digit of the result away
C21_RoundTripWithinRounding ==
    \A k \in RoundTrips :
        Abs(UnitsApart(built[k].value, built[k].amount)) <= 5

\* C21: an amount converted with the generators' rate comes back rounded
C21_Witness ==
    \E k \in RoundTrips :
        /\ built[k].rate = SEK_TO_EUR
        /\ UnitsApart(built[k].value, built[k].amount) # 0

\* the 5 units of the tolerance are reached
RoundTripFarthest ==
    \E k \in RoundTrips : Abs(UnitsApart(built[k].value, built[k].amount)) = 5


\* ---- C22
\* the total of the benefit items of a record that carry the code
BenefitTotal(record, code) ==
    SumTotals(SelectSeq(record.benefits, LAMBDA item : item.code = code))

\* C22: in every built record gross_salary is the sum of the salary item
\* totals plus the taxable travel compensation, tax_free_portion is the per
\* diem total (0 without per diem), and the per diem is no part of the gross
C22_GrossAndTaxFreeComposition ==
    \A b \in BuiltRecords :
        /\ b.record.gross_salary
               = SumTotals(b.record.salary_items) + BenefitTotal(b.record, "MK002")
        /\ b.record.tax_free_portion = BenefitTotal(b.record, "PVR003")
        /\ BenefitTotal(b.record, "PVR003") = 0 <=>
               \A i \in 1..Len(b.record.benefits) :
                   b.record.benefits[i].code # "PVR003"
        /\ b.record.gross_salary + b.record.tax_free_portion
               = SumTotals(b.record.salary_items) + SumTotals(b.record.benefits)

\* C22: a record built with per diem and travel compensation
C22_Witness ==
    \E b \in BuiltRecords :
        /\ b.builder = "realistic"
        /\ b.record.tax_free_portion > 0
        /\ BenefitTotal(b.record, "MK002") > 0

\* a record built without per diem
RecordWithoutPerDiem ==
    \E b \in BuiltRecords : b.record.benefits = <<>> /\ b.record.tax_free_portion = 0

\* ---- C23
\* C23 as stated: tax_info.earnings_period_start of a built record is the
\* year-to-date gross at the start of the period, year_to_date_gross less
\* the gross_salary of the period
C23_EarningsAtPeriodStart ==
    \A b \in BuiltRecords :
        b.record.tax_info.earnings_period_start
            = b.record.year_to_date_gross - b.record.gross_salary


\* ---- C24
\* C24 as stated: an iteration of the employee loop of
\* reset_and_populate_database leaves the accumulated (gross, tax-free) pair
\* of every employee other than the one it builds a record for unchanged
C24_OtherAccumulatorsUnchanged ==
    [][pc = "loop" =>
          \A id \in DOMAIN ytd_accumulators :
              id # PopulateEmployees[emp_idx].employee_id =>
                  /\ id \in DOMAIN ytd_accumulators'
                  /\ ytd_accumulators'[id] = ytd_accumulators[id]]_vars


\* ---- C25
\* C25 as stated: whatever save_payroll_record and
\* generate_personal_annual_summary calls have been made, the file at the
\* path the last generate call returned holds the rows and totals computed
\* from the records stored when that call was made
C25_FileHoldsLastSummary ==
    generated.returned =>
        /\ generated.path \in DOMAIN files
        /\ files[generated.path] = generated.workbook


\* ---- C26
\* C26 as stated: for every year and month generate_payroll_data gives each
\* roster employee exactly two records, the first for day 1 to day 15 and the
\* second for day 16 to the last day the month has in the Gregorian calendar
\* (so each starts no later than it ends and the second starts the day after
\* the first ends)
C26_TwoHalfMonthPeriodsPerEmployee ==
    calls > 0 =>
        LET year == built[1].record.pay_period_start.year
            month == built[1].month
        IN  \A i \in 1..Len(MOCK_EMPLOYEES) :
                LET mine == SelectSeq(all_records,
                                LAMBDA r : r.employee_id = MOCK_EMPLOYEES[i].employee_id)
                IN  /\ Len(mine) = 2
                    /\ mine[1].pay_period_start = Date(year, month, 1)
                    /\ mine[1].pay_period_end = Date(year, month, 15)
                    /\ mine[2].pay_period_start = Date(year, month, 16)
                    /\ mine[2].pay_period_end
                           = Date(year, month, CalendarDays(year, month))


\* ---- C27
\* the date an ISO text yyyy-mm-dd names
IsoDate(chars) ==
    Date(ParseInt(SubSeq(chars, 1, 4)), ParseInt(SubSeq(chars, 6, 7)),
         ParseInt(SubSeq(chars, 9, 10)))

\* the 12th of the calendar month after the month reported
TwelfthOfNextMonth(year, month) ==
    IF month = 12 THEN Date(year + 1, 1, 12) ELSE Date(year, month + 1, 12)

\* C27 as stated: the payment due date of an SKV 4786 declaration is the 12th
\* of the month after the reported one, 12 January of the next year for
\* December, in the generated form and in the submission response
C27_DueDateIsTwelfthOfNextMonth ==
    /\ \A c \in CallsOf("_get_due_date") :
           IsoDate(c.returned) = TwelfthOfNextMonth(c.year, c.month)
    /\ \A c \in CallsOf("submit_skv4786") :
           /\ IsoDate(c.returned.payment_info.due_date)
                  = TwelfthOfNextMonth(c.year, c.month)
           /\ \A row \in { tax_form_submissions[i] :
                             i \in 1..Len(tax_form_submissions) } :
                  IsoDate(row.response_json.payment_due_date)
                      = TwelfthOfNextMonth(row.year, row.month)

\* ---- C30
\* the Luhn mod-10 check of a complete number: counted from the right, every
\* second digit is doubled (9 taken off a two-digit double) and the sum of
\* all digits is a multiple of 10
LuhnValid(chars) ==
    LET n == Len(chars)
        Doubled(d) == IF 2 * d > 9 THEN 2 * d - 9 ELSE 2 * d
        Weighted(i) == IF (n - i) % 2 = 1 THEN Doubled(DigitValue(chars[i]))
                       ELSE DigitValue(chars[i])
    IN  SumSeq([i \in 1..n |-> Weighted(i)]) % 10 = 0

\* C30 as stated: the OCR number is the year, the two-digit month and 556789
\* followed by one check digit with which the whole number passes the Luhn
\* mod-10 check
C30_OcrPassesLuhn ==
    \A c \in CallsOf("_generate_ocr_number") :
        LET base == Str(c.year) \o Padded(c.month, 2)
                    \o << "5", "5", "6", "7", "8", "9" >>
        IN  /\ Len(c.returned) = Len(base) + 1
            /\ SubSeq(c.returned, 1, Len(base)) = base
            /\ LuhnValid(c.returned)


\* ---- C28
\* C28 as stated: whatever the order of the input records and whichever
\* employee lacks a record in one half, the combined (YHTEENSA) totals on a
\* sheet row are those of the employee whose first-half and second-half
\* data are written on that row
C28_CombinedRowMatchesHalves ==
    \A n \in 1..Len(sheet) :
        \A i \in 1..Len(sheet[n].rows), k \in 1..Len(sheet[n].combined) :
            sheet[n].rows[i].row = sheet[n].combined[k].row =>
                /\ sheet[n].rows[i].first # <<>> =>
                       sheet[n].rows[i].first[1].employee_id
                           = sheet[n].combined[k].employee_id
                /\ sheet[n].rows[i].second # <<>> =>
                       sheet[n].rows[i].second[1].employee_id
                           = sheet[n].combined[k].employee_id


\* ---- C29
\* C29 as stated: for the stored records of one employee and year,
\* create_annual_summary and _calculate_annual_totals give the same total
\* gross, total net, total tax-free portion, total regular hours and total
\* overtime hours
C29_SummaryAgreesWithAnnualTotals ==
    \A n \in 1..Len(annual), k \in 1..Len(annual_summaries) :
        \A i \in 1..Len(annual[n].rows) :
            (/\ annual[n].year = annual_summaries[k].year
             /\ annual[n].rows[i].employee_id = annual_summaries[k].employee_id)
            => /\ annual_summaries[k].total_gross_salary
                      = annual[n].rows[i].annual_data.total_gross
               /\ annual_summaries[k].total_net_payment
                      = annual[n].rows[i].annual_data.total_net
               /\ annual_summaries[k].total_tax_free_portion
                      = annual[n].rows[i].annual_data.tax_free
               /\ annual_summaries[k].total_regular_hours
                      = annual[n].rows[i].annual_data.regular_hours
               /\ annual_summaries[k].total_overtime_hours
                      = annual[n].rows[i].annual_data.overtime_hours

\* the two agree on the records of create_realistic_payroll_record
SummaryAgreesOnRealisticRecords ==
    \A n \in 1..Len(annual), k \in 1..Len(annual_summaries) :
        \A i \in 1..Len(annual[n].rows) :
            (/\ annual[n].year = annual_summaries[k].year
             /\ annual[n].rows[i].employee_id = annual_summaries[k].employee_id
             /\ annual_summaries[k].employee_id \in EmployeeIds(PopulateEmployees))
            => /\ annual_summaries[k].total_regular_hours
                      = annual[n].rows[i].annual_data.regular_hours
               /\ annual_summaries[k].total_overtime_hours
                      = annual[n].rows[i].annual_data.overtime_hours

====
